---------------------------- MODULE Spec2Model ----------------------------
(***************************************************************************)
(* A model of the terraformer provider bridge:                             *)
(*   - DoWorkPooled, the bounded work pool      (terraformutils/utils.go)  *)
(*   - ProviderWrapper.Refresh / GetSchema      (providerwrapper)          *)
(*   - the schema type engine: ImpliedType, EmptyValue, CoerceValue        *)
(*                                              (stoleninternal/configschema)*)
(* Each part has its own specification; the variables of the other parts   *)
(* are left unchanged by its actions.                                      *)
(***************************************************************************)
EXTENDS Integers, Sequences, FiniteSets, Bags, TLC

VARIABLES
    \* ---- DoWorkPooled ----
    items,      \* the items argument, a sequence
    poolSize,   \* the poolSize argument
    task,       \* the task argument: item -> output, Nil (no output) or an error
    mainPc,     \* position of the calling goroutine
    seqIdx,     \* sequential loop: index of the next item
    seqOut,     \* sequential loop: the output slice
    input,      \* the input channel: the items not yet received (closed after fill)
    output,     \* the output channel buffer
    outClosed,  \* close(output) has run
    errout,     \* the errout channel buffer
    errClosed,  \* close(errout) has run
    wg,         \* the WaitGroup counter
    ctxDone,    \* the context has been cancelled
    wPc,        \* position of each worker goroutine
    wItem,      \* the item a worker holds
    started,    \* history: the items handed to the task, in order
    itemsout,   \* returned outputs
    retErr,     \* returned error
    returns,    \* history: how many times the call returned
    \* ---- ProviderWrapper ----
    pSchema,       \* p.schema: NoSchema or the cached response
    \* ---- concurrent GetSchema calls on one ProviderWrapper ----
    opened,        \* initProvider has made its GetSchema call
    rpcCount,      \* history: GetProviderSchema RPCs issued
    gPc,           \* position of each caller inside GetSchema
    gLocal,        \* each caller's r, the response of its RPC
    gResult,       \* what each caller's last call returned
    gCalls,        \* history: calls each caller has finished
    \* ---- ProviderWrapper.Refresh (one call) ----
    retryCount,    \* p.retryCount
    schemaReply,   \* what the provider answers to GetProviderSchema
    priorOk,       \* whether state.AttrsAsObjectValue(impliedType) succeeds
    readScript,    \* what the provider answers to the 1st, 2nd, ... ReadResource
    importReply,   \* what the provider answers to ImportResourceState
    rPc,           \* position of the Refresh call
    rI,            \* the loop counter i
    rSuccess,      \* successReadResource
    rResp,         \* resp, the last ReadResource response
    rNewState,     \* newState
    rTrace,        \* history: RPCs issued, sleeps and log lines, in order
    rResult,       \* what Refresh returned
    \* ---- the schema type engine ----
    schema,        \* the Block a function is applied to
    inVal,         \* the value given to CoerceValue
    op,            \* the function that was applied
    res,           \* what it returned
    \* ---- GetReadOnlyAttributes ----
    roSession,     \* what GetSchema gives: an error, or the resource schemas
    roTypes,       \* the resourceTypes argument
    roOp,          \* "none" before the call, then the call made
    roOut,         \* what it returned
    \* ---- discovery and Open ----
    fsys,          \* the file system: which directories exist and what they list
    reattachEnv,   \* the value of TF_REATTACH_PROVIDERS
    oConfig,       \* p.config
    oPc,           \* position in initProvider
    oReattach,     \* the reattach descriptor, or nil
    oFile,         \* providerFilePath and err of getProviderFileName
    oClient,       \* the plugin client configuration
    oEvents,       \* what initProvider has done so far, in order
    oRequest,      \* the Config of the ConfigureProvider request sent
    oSchema,       \* the provider block of the fetched schema
    oResult,       \* what initProvider returned
    \* ---- the RPC wrappers of the client ----
    cMethod,       \* the wrapper called
    cUp,           \* what the conversions and the upstream call will do
    cOp,           \* "ready" before the call, "done" after
    cOut,          \* (ret, err) of the wrapper
    \* ---- RefreshResources ----
    rrRegular,     \* resources: the regular list
    rrSlow,        \* slowProcessingResources: the groups
    rrState,       \* per resource, its InstanceState
    rrCalls,       \* per resource, how often RefreshResource ran on it
    rrPhase,       \* which statement RefreshResources is at
    rrQueue,       \* the input channel of the running pool
    rrWork,        \* per worker, the item it holds
    rrOut,         \* refreshedResources, once returned
    \* ---- the dynamic value codec ----
    cdTy,          \* the type T to decode against
    cdVal,         \* the value V to encode
    cdDyn,         \* the *tfprotov5.DynamicValue at hand
    cdOp,          \* the last codec operation
    cdOut          \* what UnmarshallDynamicValue returned

poolVars == <<items, poolSize, task, mainPc, seqIdx, seqOut, input, output,
              outClosed, errout, errClosed, wg, ctxDone, wPc, wItem, started,
              itemsout, retErr, returns>>

sessVars == <<pSchema>>

gsVars == <<opened, rpcCount, gPc, gLocal, gResult, gCalls>>

refreshVars == <<retryCount, schemaReply, priorOk, readScript,
                 importReply, rPc, rI, rSuccess, rResp, rNewState, rTrace,
                 rResult>>

schemaVars == <<schema, inVal, op, res>>

roVars == <<roSession, roTypes, roOp, roOut>>

openVars == <<fsys, reattachEnv, oConfig, oPc, oReattach, oFile, oClient, oEvents,
              oRequest, oSchema, oResult>>

clientVars == <<cMethod, cUp, cOp, cOut>>

rrVars == <<rrRegular, rrSlow, rrState, rrCalls, rrPhase, rrQueue, rrWork, rrOut>>

codecVars == <<cdTy, cdVal, cdDyn, cdOp, cdOut>>

vars ==
    <<poolVars, sessVars, gsVars, refreshVars, schemaVars, roVars,
      openVars, clientVars, rrVars, codecVars>>

notPool ==
    <<sessVars, gsVars, refreshVars, schemaVars, roVars, openVars,
      clientVars, rrVars, codecVars>>
notRefresh ==
    <<poolVars, gsVars, schemaVars, roVars, openVars, clientVars, rrVars,
      codecVars>>
notGetSchema ==
    <<poolVars, refreshVars, schemaVars, roVars, openVars, clientVars,
      rrVars, codecVars>>
notSchema ==
    <<poolVars, sessVars, gsVars, refreshVars, roVars, openVars,
      clientVars, rrVars, codecVars>>
notReadOnly ==
    <<poolVars, sessVars, gsVars, refreshVars, schemaVars, openVars,
      clientVars, rrVars, codecVars>>
notOpen ==
    <<poolVars, sessVars, gsVars, refreshVars, schemaVars, roVars,
      clientVars, rrVars, codecVars>>
notClient ==
    <<poolVars, sessVars, gsVars, refreshVars, schemaVars, roVars,
      openVars, rrVars, codecVars>>
notRr ==
    <<poolVars, sessVars, gsVars, refreshVars, schemaVars, roVars,
      openVars, clientVars, codecVars>>
notCodec ==
    <<poolVars, sessVars, gsVars, refreshVars, schemaVars, roVars,
      openVars, clientVars, rrVars>>

Nil == "nil"

\* ------------------------------------------------------------------------
\* Bounds of the model
MaxItems == 3
MaxPool == 2
MaxRetry == 3
MaxCallers == 2
MaxCalls == 2
MaxDepth == 2
MaxElems == 2
MaxNest == 2
ItemVals == {"a", "b"}

\* ========================================================================
\* DoWorkPooled
\* ========================================================================

\* What a task may do with an item: return an output, return no output (a nil
\* pointer), or fail with an error. An error is named by the failing item.
TaskResults(item) ==
    {[kind |-> "out", val |-> v] : v \in ItemVals}
        \cup {[kind |-> "none", val |-> item], [kind |-> "fail", val |-> item]}

Tasks == { t \in [ItemVals -> UNION {TaskResults(i) : i \in ItemVals}] :
             \A i \in ItemVals : t[i] \in TaskResults(i) }

\* task(item): (out, err)
RunTask(t, item) == t[item]

SeqsUpTo(S, n) == UNION { [1..k -> S] : k \in 0..n }

\* Mutant of Workers: one worker goroutine is started for every item.
WorkersPerItem == 1..Len(items)

Workers == 1..poolSize

\* Mutant of OutputCap: the output channel is made one slot too small.
OutputCapShort == Len(items) - 1

\* cap(output) = cap(input) = len(items); cap(errout) = 1
OutputCap == Len(items)
ErroutCap == 1

PoolInit ==
    /\ items \in SeqsUpTo(ItemVals, MaxItems)
    /\ poolSize \in 0..MaxPool
    /\ task \in Tasks
    /\ mainPc = IF poolSize = 0 THEN "seq" ELSE "wait"
    /\ seqIdx = 1
    /\ seqOut = <<>>
    /\ input = IF poolSize = 0 THEN <<>> ELSE items
    /\ output = <<>>
    /\ outClosed = FALSE
    /\ errout = <<>>
    /\ errClosed = FALSE
    /\ wg = IF poolSize = 0 THEN 0 ELSE Len(items)
    /\ ctxDone = FALSE
    /\ wPc = [w \in Workers |-> "select"]
    /\ wItem = [w \in Workers |-> 0]
    /\ started = <<>>
    /\ itemsout = <<>>
    /\ retErr = Nil
    /\ returns = 0

PoolIdle ==
    /\ items = <<>> /\ poolSize = 0 /\ task = [i \in ItemVals |-> [kind |-> "none", val |-> i]]
    /\ mainPc = "idle" /\ seqIdx = 1 /\ seqOut = <<>> /\ input = <<>>
    /\ output = <<>> /\ outClosed = FALSE /\ errout = <<>> /\ errClosed = FALSE
    /\ wg = 0 /\ ctxDone = FALSE /\ wPc = <<>> /\ wItem = <<>> /\ started = <<>>
    /\ itemsout = <<>> /\ retErr = Nil /\ returns = 0

Running == mainPc \notin {"returned", "panic"}

\* Mutant of SeqStep: a failing item is skipped and the loop goes on.
SeqStepContinue ==
    /\ mainPc = "seq"
    /\ IF seqIdx > Len(items)
       THEN /\ mainPc' = "returned"
            /\ itemsout' = seqOut
            /\ retErr' = Nil
            /\ returns' = returns + 1
            /\ UNCHANGED <<seqIdx, seqOut, started>>
       ELSE LET r == RunTask(task, items[seqIdx]) IN
            /\ started' = Append(started, seqIdx)
            /\ seqOut' = IF r.kind = "out" THEN Append(seqOut, r.val) ELSE seqOut
            /\ seqIdx' = seqIdx + 1
            /\ UNCHANGED <<mainPc, itemsout, retErr, returns>>
    /\ UNCHANGED <<items, poolSize, task, input, output, outClosed, errout,
                   errClosed, wg, ctxDone, wPc, wItem>>
    /\ UNCHANGED notPool

\* poolSize == 0: one iteration of the sequential loop, or the return after it.
SeqStep ==
    /\ mainPc = "seq"
    /\ IF seqIdx > Len(items)
       THEN /\ mainPc' = "returned"
            /\ itemsout' = seqOut
            /\ retErr' = Nil
            /\ returns' = returns + 1
            /\ UNCHANGED <<seqIdx, seqOut, started>>
       ELSE LET r == RunTask(task, items[seqIdx]) IN
            /\ started' = Append(started, seqIdx)
            /\ IF r.kind = "fail"
               THEN /\ mainPc' = "returned"
                    /\ itemsout' = seqOut
                    /\ retErr' = r.val
                    /\ returns' = returns + 1
                    /\ UNCHANGED <<seqIdx, seqOut>>
               ELSE /\ seqOut' = IF r.kind = "out" THEN Append(seqOut, r.val) ELSE seqOut
                    /\ seqIdx' = seqIdx + 1
                    /\ UNCHANGED <<mainPc, itemsout, retErr, returns>>
    /\ UNCHANGED <<items, poolSize, task, input, output, outClosed, errout,
                   errClosed, wg, ctxDone, wPc, wItem>>
    /\ UNCHANGED notPool

\* select, case item, ok := <-input with ok: the worker takes the next item and
\* calls the task.
WorkerRecv(w) ==
    /\ Running
    /\ wPc[w] = "select"
    /\ input # <<>>
    /\ wItem' = [wItem EXCEPT ![w] = Len(items) - Len(input) + 1]
    /\ input' = Tail(input)
    /\ started' = Append(started, Len(items) - Len(input) + 1)
    /\ wPc' = [wPc EXCEPT ![w] = "task"]
    /\ UNCHANGED <<items, poolSize, task, mainPc, seqIdx, seqOut, output,
                   outClosed, errout, errClosed, wg, ctxDone, itemsout, retErr,
                   returns>>
    /\ UNCHANGED notPool

\* select, case <-input with !ok: the closed channel is drained, the worker returns.
WorkerInputClosed(w) ==
    /\ Running
    /\ wPc[w] = "select"
    /\ input = <<>>
    /\ wPc' = [wPc EXCEPT ![w] = "exit"]
    /\ UNCHANGED <<items, poolSize, task, mainPc, seqIdx, seqOut, input, output,
                   outClosed, errout, errClosed, wg, ctxDone, wItem, started,
                   itemsout, retErr, returns>>
    /\ UNCHANGED notPool

\* select, case <-ctx.Done(): the worker returns.
WorkerCtxDone(w) ==
    /\ Running
    /\ wPc[w] = "select"
    /\ ctxDone
    /\ wPc' = [wPc EXCEPT ![w] = "exit"]
    /\ UNCHANGED <<items, poolSize, task, mainPc, seqIdx, seqOut, input, output,
                   outClosed, errout, errClosed, wg, ctxDone, wItem, started,
                   itemsout, retErr, returns>>
    /\ UNCHANGED notPool

\* task(item) returns: on to the error branch or the output branch.
WorkerTask(w) ==
    /\ Running
    /\ wPc[w] = "task"
    /\ LET r == RunTask(task, items[wItem[w]]) IN
       wPc' = [wPc EXCEPT ![w] = CASE r.kind = "fail" -> "senderr"
                                   [] r.kind = "out"  -> "sendout"
                                   [] r.kind = "none" -> "wgdone"]
    /\ UNCHANGED <<items, poolSize, task, mainPc, seqIdx, seqOut, input, output,
                   outClosed, errout, errClosed, wg, ctxDone, wItem, started,
                   itemsout, retErr, returns>>
    /\ UNCHANGED notPool

\* errout <- err: blocks while the buffer is full; panics on a closed channel.
WorkerSendErr(w) ==
    /\ Running
    /\ wPc[w] = "senderr"
    /\ errClosed \/ Len(errout) < ErroutCap
    /\ IF errClosed
       THEN /\ mainPc' = "panic"
            /\ UNCHANGED <<errout, wPc>>
       ELSE /\ errout' = Append(errout, RunTask(task, items[wItem[w]]).val)
            /\ wPc' = [wPc EXCEPT ![w] = "cancel"]
            /\ UNCHANGED mainPc
    /\ UNCHANGED <<items, poolSize, task, seqIdx, seqOut, input, output,
                   outClosed, errClosed, wg, ctxDone, wItem, started, itemsout,
                   retErr, returns>>
    /\ UNCHANGED notPool

\* cancel() in the error branch; the worker goes back to the select.
WorkerCancel(w) ==
    /\ Running
    /\ wPc[w] = "cancel"
    /\ ctxDone' = TRUE
    /\ wPc' = [wPc EXCEPT ![w] = "select"]
    /\ UNCHANGED <<items, poolSize, task, mainPc, seqIdx, seqOut, input, output,
                   outClosed, errout, errClosed, wg, wItem, started, itemsout,
                   retErr, returns>>
    /\ UNCHANGED notPool

\* output <- *out: blocks while the buffer is full; panics on a closed channel.
WorkerSendOut(w) ==
    /\ Running
    /\ wPc[w] = "sendout"
    /\ outClosed \/ Len(output) < OutputCap
    /\ IF outClosed
       THEN /\ mainPc' = "panic"
            /\ UNCHANGED <<output, wPc>>
       ELSE /\ output' = Append(output, RunTask(task, items[wItem[w]]).val)
            /\ wPc' = [wPc EXCEPT ![w] = "wgdone"]
            /\ UNCHANGED mainPc
    /\ UNCHANGED <<items, poolSize, task, seqIdx, seqOut, input, outClosed,
                   errout, errClosed, wg, ctxDone, wItem, started, itemsout,
                   retErr, returns>>
    /\ UNCHANGED notPool

\* wg.Done(); the worker goes back to the select.
WorkerDone(w) ==
    /\ Running
    /\ wPc[w] = "wgdone"
    /\ wg' = wg - 1
    /\ wPc' = [wPc EXCEPT ![w] = "select"]
    /\ UNCHANGED <<items, poolSize, task, mainPc, seqIdx, seqOut, input, output,
                   outClosed, errout, errClosed, ctxDone, wItem, started,
                   itemsout, retErr, returns>>
    /\ UNCHANGED notPool

\* wg.Wait() returns once the counter is zero.
MainWait ==
    /\ mainPc = "wait"
    /\ wg = 0
    /\ mainPc' = "cancel"
    /\ UNCHANGED <<items, poolSize, task, seqIdx, seqOut, input, output,
                   outClosed, errout, errClosed, wg, ctxDone, wPc, wItem, started,
                   itemsout, retErr, returns>>
    /\ UNCHANGED notPool

\* cancel(); close(output); close(errout)
MainCancel ==
    /\ mainPc = "cancel"
    /\ ctxDone' = TRUE
    /\ mainPc' = "closeOutput"
    /\ UNCHANGED <<items, poolSize, task, seqIdx, seqOut, input, output,
                   outClosed, errout, errClosed, wg, wPc, wItem, started,
                   itemsout, retErr, returns>>
    /\ UNCHANGED notPool

MainCloseOutput ==
    /\ mainPc = "closeOutput"
    /\ outClosed' = TRUE
    /\ mainPc' = "closeErrout"
    /\ UNCHANGED <<items, poolSize, task, seqIdx, seqOut, input, output, errout,
                   errClosed, wg, ctxDone, wPc, wItem, started, itemsout, retErr,
                   returns>>
    /\ UNCHANGED notPool

MainCloseErrout ==
    /\ mainPc = "closeErrout"
    /\ errClosed' = TRUE
    /\ mainPc' = "drain"
    /\ UNCHANGED <<items, poolSize, task, seqIdx, seqOut, input, output,
                   outClosed, errout, wg, ctxDone, wPc, wItem, started, itemsout,
                   retErr, returns>>
    /\ UNCHANGED notPool

\* for out := range output: receives until the closed channel is empty.
MainDrain ==
    /\ mainPc = "drain"
    /\ IF output # <<>>
       THEN /\ itemsout' = Append(itemsout, Head(output))
            /\ output' = Tail(output)
            /\ UNCHANGED mainPc
       ELSE /\ mainPc' = "recverr"
            /\ UNCHANGED <<itemsout, output>>
    /\ UNCHANGED <<items, poolSize, task, seqIdx, seqOut, input, outClosed,
                   errout, errClosed, wg, ctxDone, wPc, wItem, started, retErr,
                   returns>>
    /\ UNCHANGED notPool

\* err, haserr := <-errout, and the return.
MainRecvErr ==
    /\ mainPc = "recverr"
    /\ retErr' = IF errout # <<>> THEN Head(errout) ELSE Nil
    /\ errout' = IF errout # <<>> THEN Tail(errout) ELSE errout
    /\ mainPc' = "returned"
    /\ returns' = returns + 1
    /\ UNCHANGED <<items, poolSize, task, seqIdx, seqOut, input, output,
                   outClosed, errClosed, wg, ctxDone, wPc, wItem, started,
                   itemsout>>
    /\ UNCHANGED notPool

PoolNext ==
    \/ SeqStep
    \/ \E w \in Workers : WorkerRecv(w)
    \/ \E w \in Workers : WorkerInputClosed(w)
    \/ \E w \in Workers : WorkerCtxDone(w)
    \/ \E w \in Workers : WorkerTask(w)
    \/ \E w \in Workers : WorkerSendErr(w)
    \/ \E w \in Workers : WorkerCancel(w)
    \/ \E w \in Workers : WorkerSendOut(w)
    \/ \E w \in Workers : WorkerDone(w)
    \/ MainWait
    \/ MainCancel
    \/ MainCloseOutput
    \/ MainCloseErrout
    \/ MainDrain
    \/ MainRecvErr

\* ========================================================================
\* ProviderWrapper.Refresh, one call, against a provider whose answers are
\* fixed beforehand
\* ========================================================================

\* A *tfprotov5.DynamicValue: nil, or its two payloads. "" is the empty
\* payload, "mpA" the msgpack encoding of state A, "jsB" the JSON encoding of
\* state B, "bad" bytes that do not decode.
NilDyn == [isNil |-> TRUE, MsgPack |-> "", JSON |-> ""]
Dyn(mp, js) == [isNil |-> FALSE, MsgPack |-> mp, JSON |-> js]

MsgpackUnmarshal(b) == IF b = "mpA" THEN [err |-> FALSE, val |-> "A"]
                       ELSE [err |-> TRUE, val |-> "msgpack"]
JsonUnmarshal(b) == IF b = "jsB" THEN [err |-> FALSE, val |-> "B"]
                    ELSE [err |-> TRUE, val |-> "json"]

UnmarshallDynamicValue(val) ==
    IF val.isNil THEN [err |-> FALSE, val |-> "null"]
    ELSE IF val.MsgPack # "" THEN MsgpackUnmarshal(val.MsgPack)
    ELSE IF val.JSON # "" THEN JsonUnmarshal(val.JSON)
    ELSE [err |-> FALSE, val |-> "null"]

\* Diagnostics.HasError: some diagnostic has error severity.
HasError(diags) == \E i \in DOMAIN diags : diags[i] = "error"

\* What the provider process may answer to ReadResource: the transport fails,
\* or a response with diagnostics and a new state.
ReadReplies ==
    { [transport |-> TRUE,  diags |-> <<>>,          state |-> NilDyn],
      [transport |-> FALSE, diags |-> <<"error">>,   state |-> NilDyn],
      [transport |-> FALSE, diags |-> <<>>,          state |-> NilDyn],
      [transport |-> FALSE, diags |-> <<"warning">>, state |-> Dyn("mpA", "")],
      [transport |-> FALSE, diags |-> <<>>,          state |-> Dyn("bad", "")],
      [transport |-> FALSE, diags |-> <<>>,          state |-> Dyn("", "jsB")] }

\* client.ReadResource: (nil, err) when the transport fails, (ret, err) when
\* the response carries an error diagnostic, (ret, nil) otherwise.
ClientReadResource(up) ==
    IF up.transport
    THEN [nilResp |-> TRUE, err |-> TRUE, NewState |-> NilDyn]
    ELSE [nilResp |-> FALSE, err |-> HasError(up.diags), NewState |-> up.state]

\* What the provider may answer to ImportResourceState.
ImportReplies ==
    { [transport |-> TRUE,  diags |-> <<>>,        resources |-> <<>>],
      [transport |-> FALSE, diags |-> <<"error">>, resources |-> <<>>],
      [transport |-> FALSE, diags |-> <<>>,        resources |-> <<>>],
      [transport |-> FALSE, diags |-> <<>>,        resources |-> <<Dyn("mpA", "")>>],
      [transport |-> FALSE, diags |-> <<>>,        resources |-> <<NilDyn>>],
      [transport |-> FALSE, diags |-> <<"warning">>,
       resources |-> <<Dyn("", "jsB"), Dyn("mpA", "")>>] }

\* client.ImportResourceState
ClientImportResourceState(up) ==
    IF up.transport
    THEN [nilResp |-> TRUE, err |-> TRUE, ImportedResources |-> <<>>]
    ELSE [nilResp |-> FALSE, err |-> HasError(up.diags),
          ImportedResources |-> up.resources]

\* p.schema: nil, or the response of the gen-th GetProviderSchema RPC with the
\* resource type's schema version.
NoSchema == [gen |-> 0, version |-> 0]
SchemaReplies == { [err |-> TRUE, version |-> 0], [err |-> FALSE, version |-> 2] }

NoResp == [nilResp |-> TRUE, err |-> FALSE, NewState |-> NilDyn]
NoResult == [kind |-> "none", val |-> "", version |-> 0]
ErrResult(e) == [kind |-> "error", val |-> e, version |-> 0]
PanicResult == [kind |-> "panic", val |-> "nil pointer dereference", version |-> 0]

RefreshInit ==
    /\ retryCount \in 0..MaxRetry
    /\ pSchema \in {NoSchema, [gen |-> 1, version |-> 1]}
    /\ schemaReply \in SchemaReplies
    /\ pSchema # NoSchema => ~schemaReply.err
    /\ priorOk \in BOOLEAN
    /\ readScript \in [1..retryCount -> ReadReplies]
    /\ importReply \in ImportReplies
    /\ rPc = "start"
    /\ rI = 0
    /\ rSuccess = FALSE
    /\ rResp = NoResp
    /\ rNewState = NilDyn
    /\ rTrace = <<>>
    /\ rResult = NoResult

RefreshIdle ==
    /\ retryCount = 0
    /\ schemaReply = [err |-> TRUE, version |-> 0] /\ priorOk = FALSE
    /\ readScript = <<>>
    /\ importReply = [transport |-> TRUE, diags |-> <<>>, resources |-> <<>>]
    /\ rPc = "idle" /\ rI = 0 /\ rSuccess = FALSE /\ rResp = NoResp
    /\ rNewState = NilDyn /\ rTrace = <<>> /\ rResult = NoResult

\* Where the for loop goes with counter i.
LoopPc(i) == IF i < retryCount THEN "loop" ELSE "after"

\* p.GetSchema(), the implied type and the prior state; the loop is entered.
RefreshStart ==
    /\ rPc = "start"
    /\ LET rpc == pSchema = NoSchema
           tr == IF rpc THEN <<"GetProviderSchema">> ELSE <<>>
       IN
       /\ rTrace' = rTrace \o tr
       /\ IF rpc /\ schemaReply.err
          THEN /\ rResult' = ErrResult("schema")
               /\ rPc' = "done"
               /\ UNCHANGED pSchema
          ELSE /\ pSchema' = IF rpc THEN [gen |-> 1, version |-> schemaReply.version]
                             ELSE pSchema
               /\ IF priorOk
                  THEN rPc' = LoopPc(0) /\ UNCHANGED rResult
                  ELSE rPc' = "done" /\ rResult' = ErrResult("prior state")
    /\ UNCHANGED <<retryCount, schemaReply, priorOk, readScript, importReply, rI,
                   rSuccess, rResp, rNewState>>
    /\ UNCHANGED notRefresh

\* One iteration of the retry loop: the ReadResource call and what follows it.
ReadAttempt ==
    /\ rPc = "loop"
    /\ LET r == ClientReadResource(readScript[rI + 1]) IN
       /\ rResp' = r
       /\ IF r.err
          THEN IF r.nilResp
               THEN \* log.Println(resp.Diagnostics) on a nil resp
                    /\ rTrace' = rTrace \o <<"ReadResource", "log">>
                    /\ rPc' = "panic"
                    /\ rResult' = PanicResult
                    /\ UNCHANGED <<rI, rSuccess>>
               ELSE /\ rTrace' = rTrace \o <<"ReadResource", "log", "sleep">>
                    /\ rI' = rI + 1
                    /\ rPc' = LoopPc(rI + 1)
                    /\ UNCHANGED <<rSuccess, rResult>>
          ELSE IF r.NewState.isNil
               THEN /\ rTrace' = rTrace \o <<"ReadResource", "log", "sleep">>
                    /\ rI' = rI + 1
                    /\ rPc' = LoopPc(rI + 1)
                    /\ UNCHANGED <<rSuccess, rResult>>
               ELSE /\ rTrace' = Append(rTrace, "ReadResource")
                    /\ rSuccess' = TRUE
                    /\ rPc' = "after"
                    /\ UNCHANGED <<rI, rResult>>
    /\ UNCHANGED <<retryCount, pSchema, schemaReply, priorOk, readScript,
                   importReply, rNewState>>
    /\ UNCHANGED notRefresh

\* !successReadResource: the import command.
FallbackImport ==
    /\ rPc = "after"
    /\ ~rSuccess
    /\ rTrace' = rTrace \o <<"log", "ImportResourceState">>
    /\ LET r == ClientImportResourceState(importReply) IN
       IF r.err
       THEN /\ rResult' = ErrResult("import")
            /\ rPc' = "done"
            /\ UNCHANGED rNewState
       ELSE IF Len(r.ImportedResources) = 0
       THEN /\ rResult' = ErrResult("not able to import resource for a given ID")
            /\ rPc' = "done"
            /\ UNCHANGED rNewState
       ELSE /\ rNewState' = r.ImportedResources[1]
            /\ rPc' = "decode"
            /\ UNCHANGED rResult
    /\ UNCHANGED <<retryCount, pSchema, schemaReply, priorOk, readScript,
                   importReply, rI, rSuccess, rResp>>
    /\ UNCHANGED notRefresh

\* successReadResource: the state of the last response is taken.
UseReadState ==
    /\ rPc = "after"
    /\ rSuccess
    /\ IF rResp.NewState.isNil
       THEN /\ rResult' = ErrResult("Read resource response is null")
            /\ rPc' = "done"
            /\ UNCHANGED rNewState
       ELSE /\ rNewState' = rResp.NewState
            /\ rPc' = "decode"
            /\ UNCHANGED rResult
    /\ UNCHANGED <<retryCount, pSchema, schemaReply, priorOk, readScript,
                   importReply, rI, rSuccess, rResp, rTrace>>
    /\ UNCHANGED notRefresh

\* Mutant of DecodeState: a state that does not decode sends Refresh to the
\* import command.
DecodeStateFallsBack ==
    /\ rPc = "decode"
    /\ LET d == UnmarshallDynamicValue(rNewState) IN
       IF d.err
       THEN rPc' = "after" /\ rSuccess' = FALSE /\ UNCHANGED rResult
       ELSE /\ rResult' = [kind |-> "state", val |-> d.val, version |-> pSchema.version]
            /\ rPc' = "done" /\ UNCHANGED rSuccess
    /\ UNCHANGED <<retryCount, pSchema, schemaReply, priorOk, readScript,
                   importReply, rI, rResp, rNewState, rTrace>>
    /\ UNCHANGED notRefresh

\* UnmarshallDynamicValue and the return.
DecodeState ==
    /\ rPc = "decode"
    /\ LET d == UnmarshallDynamicValue(rNewState) IN
       rResult' = IF d.err THEN ErrResult(d.val)
                  ELSE [kind |-> "state", val |-> d.val, version |-> pSchema.version]
    /\ rPc' = "done"
    /\ UNCHANGED <<retryCount, pSchema, schemaReply, priorOk, readScript,
                   importReply, rI, rSuccess, rResp, rNewState, rTrace>>
    /\ UNCHANGED notRefresh

RefreshNext ==
    \/ RefreshStart
    \/ ReadAttempt
    \/ FallbackImport
    \/ UseReadState
    \/ DecodeState

\* ========================================================================
\* ProviderWrapper.GetSchema, called concurrently
\* ========================================================================

Callers == 1..MaxCallers

NoSchemaResult == [kind |-> "none", gen |-> 0]

GsInit ==
    /\ pSchema = NoSchema
    /\ opened = FALSE
    /\ rpcCount = 0
    /\ gPc = [c \in Callers |-> "idle"]
    /\ gLocal = [c \in Callers |-> NoSchema]
    /\ gResult = [c \in Callers |-> NoSchemaResult]
    /\ gCalls = [c \in Callers |-> 0]

GsIdle ==
    /\ opened = FALSE /\ rpcCount = 0 /\ gPc = <<>> /\ gLocal = <<>>
    /\ gResult = <<>> /\ gCalls = <<>>

\* initProvider: the GetSchema call made while the wrapper is built, before
\* NewProviderWrapper hands it (together with the error, if any) to the caller.
OpenGetSchema ==
    /\ ~opened
    /\ opened' = TRUE
    /\ rpcCount' = rpcCount + 1
    /\ \E ok \in BOOLEAN :
         pSchema' = IF ok THEN [gen |-> rpcCount + 1, version |-> 1] ELSE NoSchema
    /\ UNCHANGED <<gPc, gLocal, gResult, gCalls>>
    /\ UNCHANGED notGetSchema

\* if p.schema == nil
GsCheck(c) ==
    /\ opened
    /\ gPc[c] = "idle"
    /\ gCalls[c] < MaxCalls
    /\ gPc' = [gPc EXCEPT ![c] = IF pSchema = NoSchema THEN "rpc" ELSE "return"]
    /\ UNCHANGED <<pSchema, opened, rpcCount, gLocal, gResult, gCalls>>
    /\ UNCHANGED notGetSchema

\* r, err := p.provider.GetProviderSchema(...); if err != nil { return nil, err }
GsRpc(c) ==
    /\ gPc[c] = "rpc"
    /\ rpcCount' = rpcCount + 1
    /\ \E ok \in BOOLEAN :
         IF ok
         THEN /\ gLocal' = [gLocal EXCEPT ![c] = [gen |-> rpcCount + 1, version |-> 1]]
              /\ gPc' = [gPc EXCEPT ![c] = "store"]
              /\ UNCHANGED <<gResult, gCalls>>
         ELSE /\ gResult' = [gResult EXCEPT ![c] = [kind |-> "error", gen |-> 0]]
              /\ gCalls' = [gCalls EXCEPT ![c] = @ + 1]
              /\ gPc' = [gPc EXCEPT ![c] = "idle"]
              /\ UNCHANGED gLocal
    /\ UNCHANGED <<pSchema, opened>>
    /\ UNCHANGED notGetSchema

\* p.schema = r
GsStore(c) ==
    /\ gPc[c] = "store"
    /\ pSchema' = gLocal[c]
    /\ gPc' = [gPc EXCEPT ![c] = "return"]
    /\ UNCHANGED <<opened, rpcCount, gLocal, gResult, gCalls>>
    /\ UNCHANGED notGetSchema

\* return p.schema, nil
GsReturn(c) ==
    /\ gPc[c] = "return"
    /\ gResult' = [gResult EXCEPT ![c] = [kind |-> "schema", gen |-> pSchema.gen]]
    /\ gCalls' = [gCalls EXCEPT ![c] = @ + 1]
    /\ gPc' = [gPc EXCEPT ![c] = "idle"]
    /\ UNCHANGED <<pSchema, opened, rpcCount, gLocal>>
    /\ UNCHANGED notGetSchema

GetSchemaNext ==
    \/ OpenGetSchema
    \/ \E c \in Callers : GsCheck(c)
    \/ \E c \in Callers : GsRpc(c)
    \/ \E c \in Callers : GsStore(c)
    \/ \E c \in Callers : GsReturn(c)

\* ========================================================================
\* The schema type engine (configschema): ImpliedType, EmptyValue,
\* CoerceValue, over cty types and values
\* ========================================================================

\* ---- cty types ---------------------------------------------------------
\* A type is a record with a kind k; collections carry their element type e,
\* objects a set a of [n |-> name, t |-> type], tuples a sequence es.

String == [k |-> "string"]
Number == [k |-> "number"]
Bool == [k |-> "bool"]
DynamicPseudoType == [k |-> "dynamic"]
List(ety) == [k |-> "list", e |-> ety]
Set(ety) == [k |-> "set", e |-> ety]
Map(ety) == [k |-> "map", e |-> ety]
Object(atys) == [k |-> "object", a |-> atys]
Tuple(etys) == [k |-> "tuple", es |-> etys]
EmptyObject == Object({})

IsPrimitiveType(ty) == ty.k \in {"string", "number", "bool"}
IsCollectionType(ty) == ty.k \in {"list", "set", "map"}
IsObjectType(ty) == ty.k = "object"
IsTupleType(ty) == ty.k = "tuple"

HasAttribute(ty, name) == IsObjectType(ty) /\ \E x \in ty.a : x.n = name
AttributeType(ty, name) == (CHOOSE x \in ty.a : x.n = name).t

RECURSIVE HasDynamicTypes(_)
HasDynamicTypes(ty) ==
    IF ty = DynamicPseudoType THEN TRUE
    ELSE IF IsCollectionType(ty) THEN HasDynamicTypes(ty.e)
    ELSE IF IsObjectType(ty) THEN \E x \in ty.a : HasDynamicTypes(x.t)
    ELSE IF IsTupleType(ty) THEN \E i \in DOMAIN ty.es : HasDynamicTypes(ty.es[i])
    ELSE FALSE

\* given.TestConformance(want) reports no error
RECURSIVE TestConformance(_, _)
TestConformance(given, want) ==
    IF want = DynamicPseudoType THEN TRUE
    ELSE IF given = want THEN TRUE
    ELSE IF IsObjectType(given) /\ IsObjectType(want)
    THEN /\ {x.n : x \in given.a} = {x.n : x \in want.a}
         /\ \A x \in given.a : TestConformance(x.t, AttributeType(want, x.n))
    ELSE IF IsTupleType(given) /\ IsTupleType(want)
    THEN /\ Len(given.es) = Len(want.es)
         /\ \A i \in DOMAIN given.es : TestConformance(given.es[i], want.es[i])
    ELSE IF IsCollectionType(given) /\ IsCollectionType(want)
    THEN given.k = want.k /\ TestConformance(given.e, want.e)
    ELSE FALSE

\* ---- cty values --------------------------------------------------------
\* A value has a type ty and a state st (known, null, unknown); a known value
\* carries its payload in a field that depends on the kind: p (primitive, its
\* text), o (object: set of [n, v]), l (list or tuple: sequence), s (set),
\* m (map: set of [n, v]).

NullVal(ty) == [ty |-> ty, st |-> "null"]
UnknownVal(ty) == [ty |-> ty, st |-> "unknown"]
StringVal(txt) == [ty |-> String, st |-> "known", p |-> txt]
NumberVal(txt) == [ty |-> Number, st |-> "known", p |-> txt]
BoolVal(txt) == [ty |-> Bool, st |-> "known", p |-> txt]
ObjectVal(attrs) ==
    [ty |-> Object({[n |-> x.n, t |-> x.v.ty] : x \in attrs}), st |-> "known",
     o |-> attrs]
EmptyObjectVal == ObjectVal({})
TupleVal(elems) ==
    [ty |-> Tuple([i \in DOMAIN elems |-> elems[i].ty]), st |-> "known",
     l |-> elems]
ListValEmpty(ety) == [ty |-> List(ety), st |-> "known", l |-> <<>>]
SetValEmpty(ety) == [ty |-> Set(ety), st |-> "known", s |-> {}]
MapValEmpty(ety) == [ty |-> Map(ety), st |-> "known", m |-> {}]

\* The element type ListVal, SetVal and MapVal settle on: the first type that
\* is not DynamicPseudoType; a later element of another such type makes them
\* panic ("inconsistent element types").
ElementTypeOf(tys) ==
    LET nd == tys \ {DynamicPseudoType}
    IN  IF nd = {} THEN DynamicPseudoType ELSE CHOOSE ty \in nd : TRUE
InconsistentTypes(tys) == Cardinality(tys \ {DynamicPseudoType}) > 1

SeqTypes(elems) == {elems[i].ty : i \in DOMAIN elems}
SeqRange(elems) == {elems[i] : i \in DOMAIN elems}
ListVal(elems) ==
    [ty |-> List(ElementTypeOf(SeqTypes(elems))), st |-> "known", l |-> elems]
SetVal(elems) ==
    [ty |-> Set(ElementTypeOf(SeqTypes(elems))), st |-> "known",
     s |-> SeqRange(elems)]
MapVal(elems) ==
    [ty |-> Map(ElementTypeOf({x.v.ty : x \in elems})), st |-> "known",
     m |-> elems]

IsNull(v) == v.st = "null"
IsKnown(v) == v.st # "unknown"
GetAttr(v, name) == (CHOOSE x \in v.o : x.n = name).v
CanIterateElements(v) == v.ty.k \in {"list", "set", "map", "tuple", "object"}

\* names in the order cty iterates map keys and object attributes
NameOrder == <<"blk", "dyn", "extra", "id", "k1", "k2", "k3", "k4", "name",
               "num", "sib", "str">>
InNameOrder(names) == SelectSeq(NameOrder, LAMBDA n : n \in names)

NumKey(i) == [kk |-> "num", num |-> i]
StrKey(txt) == [kk |-> "str", str |-> txt]
ValKey(v) == [kk |-> "val", val |-> v]

RECURSIVE SetElements(_)
SetElements(S) ==
    IF S = {} THEN <<>>
    ELSE LET x == CHOOSE y \in S : TRUE
         IN  <<[key |-> ValKey(x), v |-> x]>> \o SetElements(S \ {x})

\* coll.ElementIterator(): the (key, value) pairs in iteration order
Elements(coll) ==
    IF coll.ty.k \in {"list", "tuple"}
    THEN [i \in DOMAIN coll.l |-> [key |-> NumKey(i - 1), v |-> coll.l[i]]]
    ELSE IF coll.ty.k = "set" THEN SetElements(coll.s)
    ELSE LET kv == IF coll.ty.k = "map" THEN coll.m ELSE coll.o
             ks == InNameOrder({x.n : x \in kv})
         IN  [i \in DOMAIN ks |->
                [key |-> StrKey(ks[i]), v |-> (CHOOSE x \in kv : x.n = ks[i]).v]]
LengthInt(coll) == Len(Elements(coll))

\* ---- convert.Convert ---------------------------------------------------

NumberTexts == {"0", "1", "2"}

ConvOk(v) == [ok |-> TRUE, val |-> v, msg |-> ""]
ConvErr(msg) == [ok |-> FALSE, val |-> NullVal(DynamicPseudoType), msg |-> msg]

RequiredMsg(want) ==
    IF want = String THEN "string required"
    ELSE IF want = Number THEN "number required"
    ELSE IF want = Bool THEN "bool required"
    ELSE "wrong type"

Convert(in, want) ==
    IF want = DynamicPseudoType THEN ConvOk(in)
    ELSE IF in.ty = want THEN ConvOk(in)
    ELSE IF in.ty = DynamicPseudoType THEN ConvOk([ty |-> want, st |-> in.st])
    ELSE IF IsPrimitiveType(in.ty) /\ IsPrimitiveType(want)
            /\ (in.ty = String \/ want = String)
    THEN IF in.st # "known" THEN ConvOk([ty |-> want, st |-> in.st])
         ELSE IF want = String THEN ConvOk(StringVal(in.p))
         ELSE IF want = Number
         THEN IF in.p \in NumberTexts THEN ConvOk(NumberVal(in.p))
              ELSE ConvErr("a number is required")
         ELSE IF in.p \in {"true", "1"} THEN ConvOk(BoolVal("true"))
         ELSE IF in.p \in {"false", "0"} THEN ConvOk(BoolVal("false"))
         ELSE ConvErr("a bool is required")
    ELSE ConvErr(RequiredMsg(want))

\* ---- schema ------------------------------------------------------------

SchemaAttribute(name, ty, required, optional, computed) ==
    [name |-> name, type |-> ty, required |-> required, optional |-> optional,
     computed |-> computed]
SchemaNestedBlock(name, nesting, block) ==
    [name |-> name, nesting |-> nesting, block |-> block]
SchemaBlock(attrs, blocks) == [nil |-> FALSE, attrs |-> attrs, blocks |-> blocks]
\* a nil *SchemaBlock
NilBlock == [nil |-> TRUE, attrs |-> <<>>, blocks |-> <<>>]

NestingModes == {"single", "group", "list", "set", "map"}

\* WrapNestedBlock(b) is &Block{*b.Block}: the CHILD block. It dereferences
\* b.Block, so it panics when that is nil.
WrapNestedBlock(blockS) == blockS.block
WrapNestedBlockPanics(blockS) == blockS.block.nil

\* m[name] = x on a Go map kept as a set of [n, ...] records
Put(m, entry) == {x \in m : x.n # entry.n} \cup {entry}

\* ---- Block.ImpliedType -------------------------------------------------

TyOk(ty) == [ok |-> TRUE, ty |-> ty]
TyPanic == [ok |-> FALSE, ty |-> DynamicPseudoType]

RECURSIVE ImpliedType(_)
RECURSIVE impliedBlocks(_, _, _)
\* the block loop that always takes the list and the map of the child type
impliedBlocksNoDegrade(b, i, atys) ==
    IF i > Len(b.blocks) THEN TyOk(Object(atys))
    ELSE LET blockS == b.blocks[i]
             child == ImpliedType(blockS.block)
             nesting == blockS.nesting
         IN  IF \E x \in atys : x.n = blockS.name THEN TyPanic
             ELSE IF ~child.ok THEN TyPanic
             ELSE IF nesting = "set" /\ HasDynamicTypes(child.ty) THEN TyPanic
             ELSE IF nesting \notin NestingModes THEN TyPanic
             ELSE LET childType == child.ty
                      ty == IF nesting \in {"single", "group"} THEN childType
                            ELSE IF nesting = "list" THEN List(childType)
                            ELSE IF nesting = "set" THEN Set(childType)
                            ELSE Map(childType)
                  IN  impliedBlocks(b, i + 1,
                                    Put(atys, [n |-> blockS.name, t |-> ty]))

\* the block loop that lets a nested block take over a name already used
impliedBlocksOverwrite(b, i, atys) ==
    IF i > Len(b.blocks) THEN TyOk(Object(atys))
    ELSE LET blockS == b.blocks[i]
             child == ImpliedType(blockS.block)
             nesting == blockS.nesting
         IN  IF ~child.ok THEN TyPanic
             ELSE IF nesting = "set" /\ HasDynamicTypes(child.ty) THEN TyPanic
             ELSE IF nesting \notin NestingModes THEN TyPanic
             ELSE LET childType == child.ty
                      ty == IF nesting \in {"single", "group"} THEN childType
                            ELSE IF nesting = "list"
                            THEN IF HasDynamicTypes(childType)
                                 THEN DynamicPseudoType ELSE List(childType)
                            ELSE IF nesting = "set" THEN Set(childType)
                            ELSE IF HasDynamicTypes(childType)
                                 THEN DynamicPseudoType ELSE Map(childType)
                  IN  impliedBlocks(b, i + 1,
                                    Put(atys, [n |-> blockS.name, t |-> ty]))

impliedBlocks(b, i, atys) ==
    IF i > Len(b.blocks) THEN TyOk(Object(atys))
    ELSE LET blockS == b.blocks[i]
             child == ImpliedType(blockS.block)
             nesting == blockS.nesting
         IN  IF \E x \in atys : x.n = blockS.name THEN TyPanic
             ELSE IF ~child.ok THEN TyPanic
             ELSE IF nesting = "set" /\ HasDynamicTypes(child.ty) THEN TyPanic
             ELSE IF nesting \notin NestingModes THEN TyPanic
             ELSE LET childType == child.ty
                      ty == IF nesting \in {"single", "group"} THEN childType
                            ELSE IF nesting = "list"
                            THEN IF HasDynamicTypes(childType)
                                 THEN DynamicPseudoType ELSE List(childType)
                            ELSE IF nesting = "set" THEN Set(childType)
                            ELSE IF HasDynamicTypes(childType)
                                 THEN DynamicPseudoType ELSE Map(childType)
                  IN  impliedBlocks(b, i + 1,
                                    Put(atys, [n |-> blockS.name, t |-> ty]))

RECURSIVE impliedAttrs(_, _, _)
impliedAttrs(b, i, atys) ==
    IF i > Len(b.attrs) THEN atys
    ELSE impliedAttrs(b, i + 1,
                      Put(atys, [n |-> b.attrs[i].name, t |-> b.attrs[i].type]))

ImpliedType(b) ==
    IF b.nil THEN TyOk(EmptyObject)
    ELSE impliedBlocks(b, 1, impliedAttrs(b, 1, {}))

\* ---- EmptyValue --------------------------------------------------------

ValOk(v) == [kind |-> "ok", val |-> v]
ValPanic == [kind |-> "panic", val |-> NullVal(DynamicPseudoType)]

\* Attribute.EmptyValue
AttributeEmptyValue(attrS) == NullVal(attrS.type)

RECURSIVE emptyAttrs(_, _, _)
emptyAttrs(b, i, vals) ==
    IF i > Len(b.attrs) THEN vals
    ELSE emptyAttrs(b, i + 1,
           Put(vals, [n |-> b.attrs[i].name, v |-> AttributeEmptyValue(b.attrs[i])]))

\* Block.EmptyValue
RECURSIVE EmptyValue(_)
RECURSIVE emptyBlocks(_, _, _)
emptyBlocks(b, i, vals) ==
    IF i > Len(b.blocks) THEN ValOk(ObjectVal(vals))
    ELSE LET blockS == b.blocks[i]
         IN  IF WrapNestedBlockPanics(blockS) THEN ValPanic
             ELSE LET ev == EmptyValue(WrapNestedBlock(blockS))
                  IN  IF ev.kind = "panic" THEN ValPanic
                      ELSE emptyBlocks(b, i + 1,
                                       Put(vals, [n |-> blockS.name, v |-> ev.val]))

EmptyValue(b) ==
    IF b.nil THEN ValPanic
    ELSE emptyBlocks(b, 1, emptyAttrs(b, 1, {}))

\* ---- CoerceValue -------------------------------------------------------

GetAttrStep(name) == [step |-> "attr", name |-> name]
IndexStep(key) == [step |-> "index", key |-> key]

CvOk(v) == [kind |-> "ok", val |-> v, msg |-> "", arg |-> "", path |-> <<>>]
CvPanic ==
    [kind |-> "panic", val |-> NullVal(DynamicPseudoType), msg |-> "",
     arg |-> "", path |-> <<>>]
\* return cty.UnknownVal(b.ImpliedType()), <error msg at path>
CvErr(b, msg, arg, path) ==
    LET it == ImpliedType(b)
    IN  IF ~it.ok THEN CvPanic
        ELSE [kind |-> "err", val |-> UnknownVal(it.ty), msg |-> msg,
              arg |-> arg, path |-> path]
\* return cty.UnknownVal(b.ImpliedType()), err
CvFail(b, r) == IF r.kind = "panic" THEN r ELSE CvErr(b, r.msg, r.arg, r.path)

\* Attribute.coerceValue
AttributeCoerceValue(attrS, in, path) ==
    LET c == Convert(in, attrS.type)
    IN  IF c.ok THEN CvOk(c.val)
        ELSE [kind |-> "err", val |-> UnknownVal(attrS.type), msg |-> c.msg,
              arg |-> "", path |-> path]

MustBeMsg(nesting) ==
    IF nesting = "list" THEN "must be a list"
    ELSE IF nesting = "set" THEN "must be a set"
    ELSE "must be a map"

RECURSIVE coerceValue(_, _, _)
RECURSIVE coerceAttrs(_, _, _, _, _)
RECURSIVE coerceBlocks(_, _, _, _, _)
RECURSIVE coerceElems(_, _, _, _, _, _)

\* coerceAttrs without the required check: a missing attribute always
\* becomes a null of its type
coerceAttrsOptional(b, in, path, i, attrs) ==
    IF i > Len(b.attrs) THEN coerceBlocks(b, in, path, 1, attrs)
    ELSE
    LET attrS == b.attrs[i]
        name == attrS.name
        val == IF HasAttribute(in.ty, name) THEN GetAttr(in, name)
               ELSE NullVal(attrS.type)
        r == AttributeCoerceValue(attrS, val, Append(path, GetAttrStep(name)))
    IN
    IF r.kind # "ok" THEN CvFail(b, r)
    ELSE coerceAttrs(b, in, path, i + 1, Put(attrs, [n |-> name, v |-> r.val]))

\* coerceValue without the loop over the attributes of the given object
coerceValueLenient(b, in, path) ==
    LET it == ImpliedType(b)
    IN
    IF IsNull(in) THEN (IF it.ok THEN CvOk(NullVal(it.ty)) ELSE CvPanic)
    ELSE IF ~IsKnown(in) THEN (IF it.ok THEN CvOk(UnknownVal(it.ty)) ELSE CvPanic)
    ELSE IF ~IsObjectType(in.ty) THEN CvErr(b, "an object is required", "", path)
    ELSE IF b.nil THEN CvPanic
    ELSE coerceAttrs(b, in, path, 1, {})

\* the attribute loop that asks for every attribute, whatever its flags
coerceAttrsRequired(b, in, path, i, attrs) ==
    IF i > Len(b.attrs) THEN coerceBlocks(b, in, path, 1, attrs)
    ELSE
    LET attrS == b.attrs[i]
        name == attrS.name
        r == AttributeCoerceValue(attrS, GetAttr(in, name), Append(path, GetAttrStep(name)))
    IN
    IF ~HasAttribute(in.ty, name) THEN CvErr(b, "attribute is required", name, path)
    ELSE IF r.kind # "ok" THEN CvFail(b, r)
    ELSE coerceAttrs(b, in, path, i + 1, Put(attrs, [n |-> name, v |-> r.val]))

\* the element loop of a list, set or map nested block
coerceElems(b, blockS, elems, path, i, acc) ==
    IF i > Len(elems) THEN [kind |-> "ok", res |-> CvPanic, elems |-> acc]
    ELSE LET el == elems[i]
         IN  IF blockS.nesting = "map" /\ el.key.kk # "str"
             THEN [kind |-> "fail", res |-> CvErr(b, "must be a map", "", path),
                   elems |-> <<>>]
             ELSE LET r == coerceValue(WrapNestedBlock(blockS), el.v,
                                       Append(path, IndexStep(el.key)))
                  IN  IF r.kind # "ok"
                      THEN [kind |-> "fail", res |-> CvFail(b, r), elems |-> <<>>]
                      ELSE coerceElems(b, blockS, elems, path, i + 1,
                                       Append(acc, [key |-> el.key, v |-> r.val]))

\* the block loop that always takes the map encoding for a map nested block
coerceBlocksMapOnly(b, in, path, i, attrs) ==
    IF i > Len(b.blocks) THEN CvOk(ObjectVal(attrs))
    ELSE
    LET blockS == b.blocks[i]
        typeName == blockS.name
        nesting == blockS.nesting
    IN
    IF WrapNestedBlockPanics(blockS) THEN CvPanic
    ELSE
    LET child == WrapNestedBlock(blockS)
        it == ImpliedType(child)
        impliedType == it.ty
        Next(p, v) == coerceBlocks(b, in, p, i + 1, Put(attrs, [n |-> typeName, v |-> v]))
        coll == GetAttr(in, typeName)
        EmptyColl == IF nesting = "list" THEN ListValEmpty(impliedType)
                     ELSE IF nesting = "set" THEN SetValEmpty(impliedType)
                     ELSE MapValEmpty(impliedType)
        CollType == IF nesting = "list" THEN List(impliedType)
                    ELSE IF nesting = "set" THEN Set(impliedType)
                    ELSE Map(impliedType)
    IN
    IF ~it.ok THEN CvPanic
    ELSE IF nesting \notin NestingModes THEN CvPanic
    ELSE IF nesting \in {"single", "group"}
    THEN IF HasAttribute(in.ty, typeName)
         THEN LET r == coerceValue(child, coll, Append(path, GetAttrStep(typeName)))
              IN  IF r.kind # "ok" THEN CvFail(b, r) ELSE Next(path, r.val)
         ELSE LET ev == EmptyValue(child)
              IN  IF ev.kind = "panic" THEN CvPanic ELSE Next(path, ev.val)
    ELSE IF ~HasAttribute(in.ty, typeName) THEN Next(path, EmptyColl)
    ELSE IF IsNull(coll) THEN Next(path, NullVal(CollType))
    ELSE IF ~IsKnown(coll) THEN Next(path, UnknownVal(CollType))
    ELSE IF ~CanIterateElements(coll)
    THEN CvErr(b, MustBeMsg(nesting), "", path)
    ELSE IF LengthInt(coll) = 0 THEN Next(path, EmptyColl)
    ELSE
    LET path2 == Append(path, GetAttrStep(typeName))
        er == coerceElems(b, blockS, Elements(coll), path2, 1, <<>>)
        vals == [j \in DOMAIN er.elems |-> er.elems[j].v]
        keyed == {[n |-> er.elems[j].key.str, v |-> er.elems[j].v] : j \in DOMAIN er.elems}
    IN
    IF er.kind # "ok" THEN er.res
    ELSE IF nesting = "list"
    THEN IF InconsistentTypes(SeqTypes(vals)) THEN CvPanic
         ELSE Next(path2, ListVal(vals))
    ELSE IF nesting = "set"
    THEN IF InconsistentTypes(SeqTypes(vals)) THEN CvPanic
         ELSE Next(path2, SetVal(vals))
    ELSE IF InconsistentTypes(SeqTypes(vals)) THEN CvPanic
    ELSE Next(path2, MapVal(keyed))

\* the loop over b.BlockTypes; path is the loop's own variable, which the
\* list, set and map cases overwrite with append(path, GetAttrStep)
coerceBlocks(b, in, path, i, attrs) ==
    IF i > Len(b.blocks) THEN CvOk(ObjectVal(attrs))
    ELSE
    LET blockS == b.blocks[i]
        typeName == blockS.name
        nesting == blockS.nesting
    IN
    IF WrapNestedBlockPanics(blockS) THEN CvPanic
    ELSE
    LET child == WrapNestedBlock(blockS)
        it == ImpliedType(child)
        impliedType == it.ty
        Next(p, v) == coerceBlocks(b, in, p, i + 1, Put(attrs, [n |-> typeName, v |-> v]))
        coll == GetAttr(in, typeName)
        EmptyColl == IF nesting = "list" THEN ListValEmpty(impliedType)
                     ELSE IF nesting = "set" THEN SetValEmpty(impliedType)
                     ELSE MapValEmpty(impliedType)
        CollType == IF nesting = "list" THEN List(impliedType)
                    ELSE IF nesting = "set" THEN Set(impliedType)
                    ELSE Map(impliedType)
    IN
    IF ~it.ok THEN CvPanic
    ELSE IF nesting \notin NestingModes THEN CvPanic
    ELSE IF nesting \in {"single", "group"}
    THEN IF HasAttribute(in.ty, typeName)
         THEN LET r == coerceValue(child, coll, Append(path, GetAttrStep(typeName)))
              IN  IF r.kind # "ok" THEN CvFail(b, r) ELSE Next(path, r.val)
         ELSE LET ev == EmptyValue(child)
              IN  IF ev.kind = "panic" THEN CvPanic ELSE Next(path, ev.val)
    ELSE IF ~HasAttribute(in.ty, typeName) THEN Next(path, EmptyColl)
    ELSE IF IsNull(coll) THEN Next(path, NullVal(CollType))
    ELSE IF ~IsKnown(coll) THEN Next(path, UnknownVal(CollType))
    ELSE IF ~CanIterateElements(coll)
    THEN CvErr(b, MustBeMsg(nesting), "", path)
    ELSE IF LengthInt(coll) = 0 THEN Next(path, EmptyColl)
    ELSE
    LET path2 == Append(path, GetAttrStep(typeName))
        er == coerceElems(b, blockS, Elements(coll), path2, 1, <<>>)
        vals == [j \in DOMAIN er.elems |-> er.elems[j].v]
        keyed == {[n |-> er.elems[j].key.str, v |-> er.elems[j].v] : j \in DOMAIN er.elems}
        useObject == \/ IsObjectType(coll.ty)
                     \/ \E j \in DOMAIN vals : vals[j].ty # coll.ty.e
    IN
    IF er.kind # "ok" THEN er.res
    ELSE IF nesting = "list"
    THEN IF InconsistentTypes(SeqTypes(vals)) THEN CvPanic
         ELSE Next(path2, ListVal(vals))
    ELSE IF nesting = "set"
    THEN IF InconsistentTypes(SeqTypes(vals)) THEN CvPanic
         ELSE Next(path2, SetVal(vals))
    ELSE IF useObject THEN Next(path2, ObjectVal(keyed))
    ELSE IF InconsistentTypes(SeqTypes(vals)) THEN CvPanic
    ELSE Next(path2, MapVal(keyed))

\* the loop over b.Attributes
coerceAttrs(b, in, path, i, attrs) ==
    IF i > Len(b.attrs) THEN coerceBlocks(b, in, path, 1, attrs)
    ELSE
    LET attrS == b.attrs[i]
        name == attrS.name
        has == HasAttribute(in.ty, name)
        val == IF has THEN GetAttr(in, name) ELSE NullVal(attrS.type)
        r == AttributeCoerceValue(attrS, val, Append(path, GetAttrStep(name)))
    IN
    IF ~has /\ ~(attrS.computed \/ attrS.optional)
    THEN CvErr(b, "attribute is required", name, path)
    ELSE IF r.kind # "ok" THEN CvFail(b, r)
    ELSE coerceAttrs(b, in, path, i + 1, Put(attrs, [n |-> name, v |-> r.val]))

\* Mutant of coerceValue: a null input is coerced like the object that sets
\* nothing, so that its required attributes are inspected.
coerceValueNoShortCircuit(b, in, path) ==
    LET it == ImpliedType(b)
        declared == {b.attrs[i].name : i \in DOMAIN b.attrs}
                        \cup {b.blocks[i].name : i \in DOMAIN b.blocks}
        unexpected == {x.n : x \in in.ty.a} \ declared
    IN
    IF IsNull(in) THEN coerceAttrs(b, EmptyObjectVal, path, 1, {})
    ELSE IF ~IsKnown(in) THEN (IF it.ok THEN CvOk(UnknownVal(it.ty)) ELSE CvPanic)
    ELSE IF ~IsObjectType(in.ty) THEN CvErr(b, "an object is required", "", path)
    ELSE IF b.nil THEN CvPanic
    ELSE IF unexpected # {}
    THEN CvErr(b, "unexpected attribute", CHOOSE n \in unexpected : TRUE, path)
    ELSE coerceAttrs(b, in, path, 1, {})

\* Block.coerceValue
coerceValue(b, in, path) ==
    LET it == ImpliedType(b)
        declared == {b.attrs[i].name : i \in DOMAIN b.attrs}
                        \cup {b.blocks[i].name : i \in DOMAIN b.blocks}
        unexpected == {x.n : x \in in.ty.a} \ declared
    IN
    IF IsNull(in) THEN (IF it.ok THEN CvOk(NullVal(it.ty)) ELSE CvPanic)
    ELSE IF ~IsKnown(in) THEN (IF it.ok THEN CvOk(UnknownVal(it.ty)) ELSE CvPanic)
    ELSE IF ~IsObjectType(in.ty) THEN CvErr(b, "an object is required", "", path)
    ELSE IF b.nil THEN CvPanic
    ELSE IF unexpected # {}
    THEN CvErr(b, "unexpected attribute", CHOOSE n \in unexpected : TRUE, path)
    ELSE coerceAttrs(b, in, path, 1, {})

\* Block.CoerceValue
CoerceValue(b, in) == coerceValue(b, in, <<>>)

\* ---- the schemas and inputs the functions are applied to ----------------

StrAttr == SchemaAttribute("str", String, TRUE, FALSE, FALSE)
DynAttr == SchemaAttribute("dyn", DynamicPseudoType, FALSE, TRUE, FALSE)
NameAttr == SchemaAttribute("name", String, TRUE, FALSE, FALSE)
IdAttr == SchemaAttribute("id", Number, FALSE, TRUE, TRUE)

RootAttrSets == {<<>>, <<NameAttr>>, <<IdAttr>>}
ChildAttrSets == {<<StrAttr>>, <<DynAttr>>}
LeafBlocks == {SchemaBlock(a, <<>>) : a \in ChildAttrSets}

\* nested blocks d levels deep; a block with blocks of its own has one
\* required attribute
RECURSIVE ChildBlocks(_)
ChildBlocks(d) ==
    IF d = 0 THEN LeafBlocks \cup {NilBlock}
    ELSE LeafBlocks \cup
         {SchemaBlock(<<StrAttr>>, <<SchemaNestedBlock("blk", n, c)>>) :
             n \in NestingModes, c \in ChildBlocks(d - 1)}

RootBlocks ==
    {SchemaBlock(a, <<>>) : a \in RootAttrSets} \cup
    {SchemaBlock(a, <<SchemaNestedBlock("blk", n, c)>>) :
        a \in RootAttrSets, n \in NestingModes, c \in ChildBlocks(MaxDepth - 1)}

\* two nested blocks side by side
SiblingBlocks ==
    {SchemaBlock(<<>>, <<SchemaNestedBlock("blk", n1, c1),
                         SchemaNestedBlock("sib", n2, c2)>>) :
        n1 \in NestingModes, n2 \in NestingModes,
        c1 \in LeafBlocks, c2 \in LeafBlocks}

\* an attribute and a nested block, or two nested blocks, of one name
CollidingBlocks ==
    {SchemaBlock(<<SchemaAttribute("blk", String, FALSE, TRUE, FALSE)>>,
                 <<SchemaNestedBlock("blk", n, c)>>) :
        n \in NestingModes, c \in LeafBlocks} \cup
    {SchemaBlock(<<>>, <<SchemaNestedBlock("blk", n, c),
                         SchemaNestedBlock("blk", "single", c)>>) :
        n \in NestingModes, c \in LeafBlocks}

\* a nested block whose nesting mode is none of the five
InvalidNestingBlocks ==
    {SchemaBlock(<<>>, <<SchemaNestedBlock("blk", "invalid", c)>>) : c \in LeafBlocks}

Schemas ==
    RootBlocks \cup SiblingBlocks \cup CollidingBlocks \cup InvalidNestingBlocks
        \cup {NilBlock}

MapKeyPool == <<"k1", "k2", "k3", "k4">>
MapKeys == {MapKeyPool[i] : i \in {j \in DOMAIN MapKeyPool : j <= MaxElems}}

\* values offered for an attribute: fitting, convertible, inconvertible,
\* null and unknown
AttrVals(ty, rich) ==
    IF ty = String
    THEN IF rich THEN {StringVal("a"), NumberVal("1"), BoolVal("true"),
                       NullVal(String), UnknownVal(String), EmptyObjectVal}
         ELSE {StringVal("a"), EmptyObjectVal}
    ELSE IF ty = Number
    THEN IF rich THEN {NumberVal("1"), StringVal("2"), StringVal("a"),
                       BoolVal("true"), NullVal(Number), UnknownVal(Number)}
         ELSE {NumberVal("1"), StringVal("a")}
    ELSE IF rich THEN {StringVal("a"), NumberVal("1"),
                       NullVal(DynamicPseudoType), UnknownVal(DynamicPseudoType)}
         ELSE {StringVal("a"), NumberVal("1")}

FirstVal(ty) == IF ty = Number THEN NumberVal("1") ELSE StringVal("a")
SecondVal(ty) == IF ty = Number THEN StringVal("2") ELSE NumberVal("1")

\* the object that sets every attribute of b to a fitting value
Plain(b) == {[n |-> b.attrs[i].name, v |-> FirstVal(b.attrs[i].type)] : i \in DOMAIN b.attrs}
Plain2(b) == {[n |-> b.attrs[i].name, v |-> SecondVal(b.attrs[i].type)] : i \in DOMAIN b.attrs}

\* one attribute varied (or left out), the others fitting
AttrMaps(b, rich) ==
    {Plain(b)} \cup
    {{x \in Plain(b) : x.n # b.attrs[i].name} : i \in DOMAIN b.attrs} \cup
    UNION {{Put(Plain(b), [n |-> b.attrs[i].name, v |-> v]) :
               v \in AttrVals(b.attrs[i].type, rich)} : i \in DOMAIN b.attrs}

SeqsOf(S, n) == UNION {[1..m -> S] : m \in 1..n}

\* a sequence as cty can hold it: a list when the element types agree,
\* else a tuple
SeqVal(elems) ==
    IF InconsistentTypes(SeqTypes(elems)) THEN TupleVal(elems) ELSE ListVal(elems)

NullIn == NullVal(DynamicPseudoType)
UnknownIn == UnknownVal(DynamicPseudoType)

\* the few elements longer collections are built from
CoreElems(c) == {ObjectVal(Plain(c)), ObjectVal(Plain2(c)), EmptyObjectVal}

RECURSIVE ObjectInputs(_, _)
RECURSIVE BlockVals(_, _)

ElemInputs(c, fuel) == ObjectInputs(c, fuel) \cup {NullIn, UnknownIn}

KeyedInputs(E, core) ==
    LET one == {{[n |-> "k1", v |-> e]} : e \in E}
        more == UNION {{{[n |-> k, v |-> f[k]] : k \in K} : f \in [K -> core]} :
                          K \in {K \in SUBSET MapKeys : Cardinality(K) > 1}}
        all == one \cup more
    IN  {ObjectVal(kv) : kv \in all} \cup
        {MapVal(kv) : kv \in {m \in all : ~InconsistentTypes({x.v.ty : x \in m})}}

BlockVals(blockS, fuel) ==
    LET c == blockS.block
        E == IF fuel > 0 THEN ElemInputs(c, fuel - 1)
             ELSE {ObjectVal(Plain(c)), EmptyObjectVal, NullIn,
                   ObjectVal(Plain(c) \cup {[n |-> "extra", v |-> StringVal("a")]})}
        core == IF fuel > 0 THEN CoreElems(c) ELSE {}
        seqs == {<<e>> : e \in E} \cup (SeqsOf(core, MaxElems) \ SeqsOf(core, 1))
        scalars == IF fuel > 0 THEN {NullIn, UnknownIn, StringVal("a")}
                   ELSE {NullIn, UnknownIn}
    IN  IF blockS.nesting \in {"single", "group"} THEN E \cup {StringVal("a")}
        ELSE IF blockS.nesting = "list"
        THEN scalars \cup {ListValEmpty(EmptyObject)} \cup {SeqVal(q) : q \in seqs}
        ELSE IF blockS.nesting = "set"
        THEN scalars \cup {SetValEmpty(EmptyObject)} \cup {SeqVal(q) : q \in seqs}
                 \cup {SetVal(<<e>>) : e \in core}
        ELSE scalars \cup {MapValEmpty(EmptyObject)} \cup KeyedInputs(E, core)
                 \cup {ListVal(<<e>>) : e \in core}

RECURSIVE BlockMaps(_, _, _)
BlockMaps(b, i, fuel) ==
    IF i > Len(b.blocks) THEN {{}}
    ELSE LET rest == BlockMaps(b, i + 1, IF Len(b.blocks) > 1 THEN 0 ELSE fuel)
             vs == BlockVals(b.blocks[i], IF Len(b.blocks) > 1 THEN 0 ELSE fuel)
         IN  rest \cup {Put(m, [n |-> b.blocks[i].name, v |-> v]) : m \in rest, v \in vs}

\* objects offered for block b: attributes varied with the nested blocks
\* left out, nested blocks varied with the attributes fitting, and one
\* undeclared attribute
ObjectInputs(b, fuel) ==
    IF b.nil THEN {EmptyObjectVal}
    ELSE {ObjectVal(m) : m \in AttrMaps(b, fuel > 0)} \cup
         {ObjectVal(Plain(b) \cup m) : m \in BlockMaps(b, 1, fuel)} \cup
         {ObjectVal(Plain(b) \cup {[n |-> "extra", v |-> StringVal("a")]})}

\* the values given to CoerceValue for schema b: rich at the top level,
\* plainer inside nested blocks
Inputs(b) == ObjectInputs(b, 1) \cup {NullIn, UnknownIn, StringVal("a")}

\* ---- applying the functions -------------------------------------------

NoRes ==
    [kind |-> "none", ty |-> DynamicPseudoType, val |-> NullIn, msg |-> "",
     arg |-> "", path |-> <<>>]

SchemaInit ==
    /\ schema \in Schemas
    /\ inVal \in Inputs(schema)
    /\ op = "none"
    /\ res = NoRes

SchemaIdle == schema = NilBlock /\ inVal = NullIn /\ op = "idle" /\ res = NoRes

ApplyImpliedType ==
    /\ op = "none"
    /\ op' = "ImpliedType"
    /\ LET it == ImpliedType(schema)
       IN  res' = [NoRes EXCEPT !.kind = IF it.ok THEN "ok" ELSE "panic",
                                !.ty = it.ty]
    /\ UNCHANGED <<schema, inVal>>
    /\ UNCHANGED notSchema

ApplyEmptyValue ==
    /\ op = "none"
    /\ op' = "EmptyValue"
    /\ LET ev == EmptyValue(schema)
       IN  res' = [NoRes EXCEPT !.kind = ev.kind, !.val = ev.val, !.ty = ev.val.ty]
    /\ UNCHANGED <<schema, inVal>>
    /\ UNCHANGED notSchema

ApplyCoerceValue ==
    /\ op = "none"
    /\ op' = "CoerceValue"
    /\ LET r == CoerceValue(schema, inVal)
       IN  res' = [kind |-> r.kind, ty |-> r.val.ty, val |-> r.val, msg |-> r.msg,
                   arg |-> r.arg, path |-> r.path]
    /\ UNCHANGED <<schema, inVal>>
    /\ UNCHANGED notSchema

SchemaNext == ApplyImpliedType \/ ApplyEmptyValue \/ ApplyCoerceValue

\* ========================================================================
\* Read-only path discovery: GetReadOnlyAttributes and readObjBlocks
\* (providerwrapper/provider.go)
\* ========================================================================

\* A Go string is kept as the sequence of its characters, so that a pattern
\* can be matched against it character by character.
Str(name) ==
    CASE name = "id" -> <<"i", "d">>
      [] name = "arn" -> <<"a", "r", "n">>
      [] name = "name" -> <<"n", "a", "m", "e">>
      [] name = "tags" -> <<"t", "a", "g", "s">>
      [] name = "policy" -> <<"p", "o", "l", "i", "c", "y">>
      [] name = "sub" -> <<"s", "u", "b">>
      [] name = "leaf" -> <<"l", "e", "a", "f">>

Dot == <<".">>
DigitChars == {"0", "1", "2", "3", "4", "5", "6", "7", "8", "9"}

\* A pattern is the sequence of the pieces regexp reads in its source text.
Lit(cs) == [t |-> "lit", cs |-> cs]             \* the characters themselves; \. is Lit(Dot)
Digits == [t |-> "digits"]                      \* [0-9]+
AnyText == [t |-> "any"]                        \* (.*)
Bol == [t |-> "bol"]                            \* ^
Eol == [t |-> "eol"]                            \* $
Alt(alts) == [t |-> "alt", alts |-> alts]       \* (a|b|c)

\* pat from piece i on matches text from position pos on; the match may end
\* anywhere
RECURSIVE MatchHere(_, _, _, _)
MatchHere(pat, i, text, pos) ==
    IF i > Len(pat) THEN TRUE
    ELSE LET tok == pat[i]
             n == Len(text)
         IN  CASE tok.t = "bol" -> pos = 1 /\ MatchHere(pat, i + 1, text, pos)
               [] tok.t = "eol" -> pos = n + 1 /\ MatchHere(pat, i + 1, text, pos)
               [] tok.t = "lit" ->
                     /\ pos + Len(tok.cs) - 1 <= n
                     /\ \A j \in DOMAIN tok.cs : text[pos + j - 1] = tok.cs[j]
                     /\ MatchHere(pat, i + 1, text, pos + Len(tok.cs))
               [] tok.t = "digits" ->
                     \E e \in (pos + 1)..(n + 1) :
                        /\ \A j \in pos..(e - 1) : text[j] \in DigitChars
                        /\ MatchHere(pat, i + 1, text, e)
               [] tok.t = "any" ->
                     \E e \in pos..(n + 1) : MatchHere(pat, i + 1, text, e)
               [] tok.t = "alt" ->
                     \E a \in DOMAIN tok.alts :
                        MatchHere(tok.alts[a] \o SubSeq(pat, i + 1, Len(pat)), 1, text, pos)

\* regexp.MatchString: the pattern matches some part of the text
MatchString(pattern, text) ==
    \E pos \in 1..(Len(text) + 1) : MatchHere(pattern, 1, text, pos)

isAttributeIgnored(name, patterns) ==
    \E i \in DOMAIN patterns : MatchString(patterns[i], name)

\* the parent argument "-1" of the top-level call
Sentinel == <<Lit(<<"-", "1">>)>>

\* parent+"\\.[0-9]+\\."+k
IndexedUnder(parent, k) == parent \o <<Lit(Dot), Digits, Lit(Dot), Lit(k)>>

\* !l.Optional && !l.Required
NotSettable(l) == ~l.optional /\ ~l.required

\* the pattern appended for attribute key of nested block v
attrPattern(v, key, parent) ==
    LET k == Str(v.name)
    IN  CASE v.nesting = "list" ->
                IF parent = Sentinel
                THEN <<Bol, Lit(k), Lit(Dot), Digits, Lit(Dot), Lit(key),
                       Alt(<< <<Eol>>, <<Lit(Dot), Digits>>, <<Lit(Dot), Lit(<<"#">>)>> >>)>>
                ELSE <<Bol>> \o parent \o <<Lit(Dot), AnyText, Lit(Dot), Lit(key), Eol>>
          [] v.nesting = "set" ->
                IF parent = Sentinel
                THEN <<Bol, Lit(k), Lit(Dot), Digits, Lit(Dot), Lit(key), Eol>>
                ELSE <<Bol>> \o parent \o
                     <<Lit(Dot), AnyText, Lit(Dot), Lit(key),
                       Alt(<< <<Eol>>, <<Lit(Dot), AnyText>> >>)>>
          [] v.nesting = "map" -> parent \o <<Lit(Dot), Lit(key)>>
          [] OTHER -> parent \o <<Lit(Dot), Lit(key), Eol>>

\* the loop over v.Block.Attributes: one pattern per attribute that is
\* neither optional nor required, in schema order
readObjAttrs(v, parent) ==
    LET ro == SelectSeq(v.block.attrs, NotSettable)
    IN  [j \in DOMAIN ro |-> attrPattern(v, Str(ro[j].name), parent)]

fieldCount(v) == Len(SelectSeq(v.block.attrs, NotSettable))

\* v.Block is dereferenced for every nested block the walk visits
RECURSIVE readObjBlocksPanics(_)
readObjBlocksPanics(block) ==
    \E i \in DOMAIN block :
       block[i].block.nil \/ readObjBlocksPanics(block[i].block.blocks)

RECURSIVE readObjBlocks(_, _, _)
RECURSIVE readObjBlocksFrom(_, _, _, _)
\* the loop over block from index i on
readObjBlocksFrom(block, i, readOnlyAttributes, parent) ==
    IF i > Len(block) THEN readOnlyAttributes
    ELSE LET v == block[i]
             k == Str(v.name)
             ro1 == IF Len(v.block.blocks) > 0
                    THEN readObjBlocks(v.block.blocks, readOnlyAttributes,
                                       IF parent = Sentinel THEN <<Lit(k)>>
                                       ELSE IndexedUnder(parent, k))
                    ELSE readOnlyAttributes
             ro2 == ro1 \o readObjAttrs(v, parent)
             ro3 == IF /\ fieldCount(v) = Len(v.block.attrs)
                       /\ fieldCount(v) > 0
                       /\ Len(v.block.blocks) = 0
                    THEN Append(ro2, <<Bol, Lit(k)>>)
                    ELSE ro2
         IN  readObjBlocksFrom(block, i + 1, ro3, parent)

readObjBlocks(block, readOnlyAttributes, parent) ==
    readObjBlocksFrom(block, 1, readOnlyAttributes, parent)

\* the pattern of a top-level attribute
topAttrPattern(v) ==
    IF v.type.k \in {"list", "set"}
    THEN <<Bol, Lit(Str(v.name)), Lit(Dot), AnyText>>
    ELSE <<Bol, Lit(Str(v.name)), Eol>>

topAttrs(b) ==
    LET ro == SelectSeq(b.attrs, NotSettable)
    IN  [j \in DOMAIN ro |-> topAttrPattern(ro[j])]

IdPattern == <<Bol, Lit(Str("id")), Eol>>

\* GetReadOnlyAttributes(resourceTypes) on a session whose GetSchema gives
\* session: an error, or the resource schemas as a set of [n, block]
GetReadOnlyAttributes(session, resourceTypes) ==
    LET asked == {r \in session.resources : r.n \in resourceTypes}
    IN  IF session.err THEN [kind |-> "err", attrs |-> {}]
        ELSE IF \E r \in asked : r.block.nil \/ readObjBlocksPanics(r.block.blocks)
        THEN [kind |-> "panic", attrs |-> {}]
        ELSE [kind |-> "ok",
              attrs |-> {[n |-> r.n,
                          pats |-> readObjBlocks(r.block.blocks,
                                                 <<IdPattern>> \o topAttrs(r.block),
                                                 Sentinel)] : r \in asked}]

\* ---- the schemas and requests offered ----

RoArn == SchemaAttribute("arn", String, FALSE, FALSE, TRUE)
RoName == SchemaAttribute("name", String, TRUE, FALSE, FALSE)
RoNameComputed == SchemaAttribute("name", String, FALSE, FALSE, TRUE)
RoTags == SchemaAttribute("tags", List(String), FALSE, FALSE, TRUE)
RoId == SchemaAttribute("id", String, FALSE, TRUE, TRUE)

RoAttrSets == {<<>>, <<RoArn>>, <<RoArn, RoName>>, <<RoNameComputed>>}
RoTopAttrSets == {<<>>, <<RoId, RoArn>>, <<RoTags>>}

LevelNames == <<"policy", "sub", "leaf">>

\* the nested blocks offered at nesting level l, down to level MaxNest
RECURSIVE RoNested(_)
RoNested(l) ==
    {SchemaNestedBlock(LevelNames[l], n, SchemaBlock(a, bs)) :
        n \in NestingModes, a \in RoAttrSets,
        bs \in IF l < MaxNest THEN {<<>>} \cup {<<c>> : c \in RoNested(l + 1)}
               ELSE {<<>>}}
    \cup {SchemaNestedBlock(LevelNames[l], "list", NilBlock)}

RoBlocks ==
    {SchemaBlock(top, <<c>>) : top \in RoTopAttrSets, c \in RoNested(1)}
        \cup {SchemaBlock(top, <<>>) : top \in RoTopAttrSets} \cup {NilBlock}

RoSessions ==
    {[err |-> FALSE, resources |-> {[n |-> "res_a", block |-> b]}] : b \in RoBlocks}
        \cup {[err |-> FALSE,
               resources |-> {[n |-> "res_a", block |-> SchemaBlock(top, <<>>)],
                              [n |-> "res_b", block |-> SchemaBlock(<<RoArn>>, <<>>)]}] :
                 top \in RoTopAttrSets}
        \cup {[err |-> TRUE, resources |-> {}]}

RoTypeSets == {{}, {"res_a"}, {"res_a", "res_b"}, {"res_b", "res_c"}}

NoRoOut == [kind |-> "none", attrs |-> {}]

RoInit ==
    /\ roSession \in RoSessions
    /\ roTypes \in RoTypeSets
    /\ roOp = "none"
    /\ roOut = NoRoOut

RoIdle ==
    /\ roSession = [err |-> TRUE, resources |-> {}]
    /\ roTypes = {}
    /\ roOp = "idle"
    /\ roOut = NoRoOut

ApplyGetReadOnlyAttributes ==
    /\ roOp = "none"
    /\ roOp' = "GetReadOnlyAttributes"
    /\ roOut' = GetReadOnlyAttributes(roSession, roTypes)
    /\ UNCHANGED <<roSession, roTypes>>
    /\ UNCHANGED notReadOnly

ReadOnlyNext == ApplyGetReadOnlyAttributes

\* ========================================================================
\* The dynamic value codec: NewDynamicValue and UnmarshallDynamicValue
\* (providerwrapper/provider.go), over the msgpack and JSON encodings of cty
\* ========================================================================

\* An encoding is a tree of codes: nil, the extension code of an unknown
\* value, a string, a number, a bool, an array, a map, and the bytes of a
\* type; NoBytes is the payload of length zero.
NoBytes == [c |-> "empty"]
NilCode == [c |-> "nil"]
ExtCode == [c |-> "ext"]
PrimCode(kind, txt) == [c |-> kind, p |-> txt]
ArrayCode(elems) == [c |-> "array", l |-> elems]
MapCode(entries) == [c |-> "map", m |-> entries]
TypeBytes(ty) == [c |-> "bin", t |-> ty]

SetSeq(v) == LET es == SetElements(v.s) IN [i \in DOMAIN es |-> es[i].v]

\* a value that is decoded as DynamicPseudoType travels with its type: as
\* the array [type, value] in msgpack, as the object {type, value} in JSON
DynamicCode(fmt, ty, enc) ==
    IF fmt = "msgpack" THEN ArrayCode(<<TypeBytes(ty), enc>>)
    ELSE MapCode({[n |-> "type", e |-> TypeBytes(ty)], [n |-> "value", e |-> enc]})

\* marshal of cty/msgpack and cty/json: val encoded for a reader who decodes
\* against ty
RECURSIVE encode(_, _, _)
encode(fmt, val, ty) ==
    IF ty = DynamicPseudoType /\ val.ty # DynamicPseudoType
    THEN DynamicCode(fmt, val.ty, encode(fmt, val, val.ty))
    ELSE IF ~IsKnown(val) THEN ExtCode
    ELSE IF IsNull(val) THEN NilCode
    ELSE CASE ty.k = "string" -> PrimCode("str", val.p)
           [] ty.k = "number" -> PrimCode("num", val.p)
           [] ty.k = "bool" -> PrimCode("bool", val.p)
           [] ty.k = "list" ->
                ArrayCode([i \in DOMAIN val.l |-> encode(fmt, val.l[i], ty.e)])
           [] ty.k = "set" ->
                ArrayCode([i \in DOMAIN SetSeq(val) |-> encode(fmt, SetSeq(val)[i], ty.e)])
           [] ty.k = "map" ->
                MapCode({[n |-> x.n, e |-> encode(fmt, x.v, ty.e)] : x \in val.m})
           [] ty.k = "tuple" ->
                ArrayCode([i \in DOMAIN val.l |-> encode(fmt, val.l[i], ty.es[i])])
           [] ty.k = "object" ->
                MapCode({[n |-> x.n, e |-> encode(fmt, x.v, AttributeType(ty, x.n))] :
                           x \in val.o})
           [] OTHER -> NilCode

RECURSIVE HasExt(_)
HasExt(enc) ==
    \/ enc.c = "ext"
    \/ enc.c = "array" /\ \E i \in DOMAIN enc.l : HasExt(enc.l[i])
    \/ enc.c = "map" /\ \E x \in enc.m : HasExt(x.e)

\* msgpack.Marshal(val, ty) and json.Marshal(val, ty): an error when val does
\* not conform to ty, and JSON has no encoding of an unknown value
Marshal(fmt, val, ty) ==
    IF ~TestConformance(val.ty, ty) THEN [err |-> TRUE, bytes |-> NoBytes]
    ELSE LET enc == encode(fmt, val, ty)
         IN  IF fmt = "json" /\ HasExt(enc) THEN [err |-> TRUE, bytes |-> NoBytes]
             ELSE [err |-> FALSE, bytes |-> enc]

Decoded(v) == [err |-> FALSE, val |-> v]
DecodeError == [err |-> TRUE, val |-> NullVal(DynamicPseudoType)]

\* unmarshal of cty/msgpack and cty/json: the value of type ty in enc
RECURSIVE decode(_, _, _)
decode(fmt, enc, ty) ==
    IF enc.c = "ext" THEN IF fmt = "msgpack" THEN Decoded(UnknownVal(ty)) ELSE DecodeError
    ELSE IF ty = DynamicPseudoType
    THEN IF enc.c = "nil" THEN Decoded(NullVal(DynamicPseudoType))
         ELSE IF fmt = "msgpack" /\ enc.c = "array" /\ Len(enc.l) = 2 /\ enc.l[1].c = "bin"
         THEN decode(fmt, enc.l[2], enc.l[1].t)
         ELSE IF fmt = "json" /\ enc.c = "map" /\ {x.n : x \in enc.m} = {"type", "value"}
         THEN LET tyE == (CHOOSE x \in enc.m : x.n = "type").e
                  valE == (CHOOSE x \in enc.m : x.n = "value").e
              IN  IF tyE.c = "bin" THEN decode(fmt, valE, tyE.t) ELSE DecodeError
         ELSE DecodeError
    ELSE IF enc.c = "nil" THEN Decoded(NullVal(ty))
    ELSE CASE ty.k = "string" ->
                IF enc.c = "str" THEN Decoded(StringVal(enc.p)) ELSE DecodeError
           [] ty.k = "number" ->
                IF enc.c = "num" \/ (enc.c = "str" /\ enc.p \in NumberTexts)
                THEN Decoded(NumberVal(enc.p)) ELSE DecodeError
           [] ty.k = "bool" ->
                IF enc.c = "bool" THEN Decoded(BoolVal(enc.p)) ELSE DecodeError
           [] ty.k \in {"list", "set"} ->
                IF enc.c # "array" THEN DecodeError
                ELSE LET ds == [i \in DOMAIN enc.l |-> decode(fmt, enc.l[i], ty.e)]
                         vs == [i \in DOMAIN ds |-> ds[i].val]
                     IN  IF \E i \in DOMAIN ds : ds[i].err THEN DecodeError
                         ELSE IF ty.k = "list"
                         THEN Decoded(IF vs = <<>> THEN ListValEmpty(ty.e) ELSE ListVal(vs))
                         ELSE Decoded(IF vs = <<>> THEN SetValEmpty(ty.e) ELSE SetVal(vs))
           [] ty.k = "map" ->
                IF enc.c # "map" THEN DecodeError
                ELSE LET ds == {[n |-> x.n, d |-> decode(fmt, x.e, ty.e)] : x \in enc.m}
                         vs == {[n |-> x.n, v |-> x.d.val] : x \in ds}
                     IN  IF \E x \in ds : x.d.err THEN DecodeError
                         ELSE Decoded(IF vs = {} THEN MapValEmpty(ty.e) ELSE MapVal(vs))
           [] ty.k = "tuple" ->
                IF enc.c # "array" \/ Len(enc.l) # Len(ty.es) THEN DecodeError
                ELSE LET ds == [i \in DOMAIN enc.l |-> decode(fmt, enc.l[i], ty.es[i])]
                     IN  IF \E i \in DOMAIN ds : ds[i].err THEN DecodeError
                         ELSE Decoded(TupleVal([i \in DOMAIN ds |-> ds[i].val]))
           [] ty.k = "object" ->
                IF enc.c # "map" \/ \E x \in enc.m : ~HasAttribute(ty, x.n)
                THEN DecodeError
                ELSE LET ds == {[n |-> x.n, d |-> decode(fmt, x.e, AttributeType(ty, x.n))] :
                                  x \in enc.m}
                     IN  IF \E x \in ds : x.d.err THEN DecodeError
                         ELSE Decoded(ObjectVal({[n |-> x.n, v |-> x.d.val] : x \in ds}))
           [] OTHER -> DecodeError

\* a *tfprotov5.DynamicValue: nil, or its MsgPack and JSON payloads
NilDynamicValue == [isNil |-> TRUE, mp |-> NoBytes, js |-> NoBytes]
DynamicValue(mp, js) == [isNil |-> FALSE, mp |-> mp, js |-> js]

\* NewDynamicValue(val): msgpack.Marshal(val, val.Type()), a panic on its
\* error, and only MsgPack set
NewDynamicValue(val) ==
    LET r == Marshal("msgpack", val, val.ty)
    IN  IF r.err THEN [panic |-> TRUE, dv |-> NilDynamicValue]
        ELSE [panic |-> FALSE, dv |-> DynamicValue(r.bytes, NoBytes)]

\* UnmarshallDynamicValue(val, ty)
DecodeDynamicValue(val, ty) ==
    IF val.isNil THEN Decoded(NullVal(ty))
    ELSE IF val.mp # NoBytes THEN decode("msgpack", val.mp, ty)
    ELSE IF val.js # NoBytes THEN decode("json", val.js, ty)
    ELSE Decoded(NullVal(ty))

\* ========================================================================
\* Provider discovery and Open: getProviderFileName, getReattachProviders,
\* initProvider (providerwrapper/provider.go)
\* ========================================================================

\* A file name is the sequence of its pieces, cut where a prefix test can end.
providerName == <<"aws">>
ExePrefix == <<"terraform-provider-">> \o providerName
HasPrefix(name, prefix) ==
    Len(name) >= Len(prefix) /\ SubSeq(name, 1, Len(prefix)) = prefix

\* a directory entry, and what ioutil.ReadDir gives for a directory
Entry(name, isDir, sub) == [name |-> name, dir |-> isDir, sub |-> sub]
Missing == [exists |-> FALSE, entries |-> <<>>]
Dir(entries) == [exists |-> TRUE, entries |-> entries]
File(name) == Entry(name, FALSE, Missing)

\* the empty string returned for "nothing found"
NoPath == [dir |-> <<>>, file |-> <<>>]
PathOf(dir, name) == [dir |-> dir, file |-> name]

\* the loop over files: the last file with the prefix replaces cur
lastMatch(files, cur, dir, skipDirs) ==
    LET idx == {i \in DOMAIN files :
                   /\ HasPrefix(files[i].name, ExePrefix)
                   /\ ~(skipDirs /\ files[i].dir)}
    IN  IF idx = {} THEN cur
        ELSE PathOf(dir, files[CHOOSE i \in idx : \A j \in idx : j <= i].name)

\* the inner loop over dirs: every entry's platform directory is read
RECURSIVE scanVersions(_, _, _, _)
scanVersions(dirs, j, cur, pluginPath) ==
    IF j > Len(dirs) THEN cur
    ELSE LET fullPluginPath == pluginPath \o <<dirs[j].name, <<"os_arch">>>>
             files == dirs[j].sub
         IN  scanVersions(dirs, j + 1,
                          IF files.exists
                          THEN lastMatch(files.entries, cur, fullPluginPath, FALSE)
                          ELSE cur,
                          pluginPath)

\* the loop over providerDirs; the inner loop runs once per entry of dirs
\* that is a directory, each time over all of dirs
RECURSIVE scanHosts(_, _, _, _)
scanHosts(providerDirs, i, cur, registryDir) ==
    IF i > Len(providerDirs) THEN cur
    ELSE LET pluginPath == registryDir \o <<providerDirs[i].name, providerName>>
             dirs == providerDirs[i].sub
         IN  scanHosts(providerDirs, i + 1,
                       IF dirs.exists /\ \E j \in DOMAIN dirs.entries : dirs.entries[j].dir
                       THEN scanVersions(dirs.entries, 1, cur, pluginPath)
                       ELSE cur,
                       registryDir)

Found(path) == [path |-> path, err |-> FALSE]
ReadDirError == [path |-> NoPath, err |-> TRUE]

\* fs is the file system: per prefix the two registry directories, and the
\* two flat directories
getProviderFileNameV13andV14(fs, prefix) ==
    LET v14 == fs[prefix].v14
        v13 == fs[prefix].v13
    IN  IF v14.exists
        THEN Found(scanHosts(v14.entries, 1, NoPath,
                             <<<<prefix>>, <<"providers">>, <<"registry.terraform.io">>>>))
        ELSE IF v13.exists
        THEN Found(scanHosts(v13.entries, 1, NoPath,
                             <<<<prefix>>, <<"plugins">>, <<"registry.terraform.io">>>>))
        ELSE ReadDirError

getProviderFileNameV12(fs) ==
    IF fs.data.flat.exists
    THEN Found(lastMatch(fs.data.flat.entries, NoPath,
                         <<<<"data">>, <<"plugins">>, <<"os_arch">>>>, TRUE))
    ELSE IF fs.home.flat.exists
    THEN Found(lastMatch(fs.home.flat.entries, NoPath,
                         <<<<"home">>, <<".terraform.d">>, <<"plugins">>, <<"os_arch">>>>, TRUE))
    ELSE ReadDirError

getProviderFileName(fs) ==
    LET r1 == getProviderFileNameV13andV14(fs, "data")
        r2 == IF r1.err \/ r1.path = NoPath
              THEN getProviderFileNameV13andV14(fs, "home") ELSE r1
    IN  IF r2.err \/ r2.path = NoPath THEN getProviderFileNameV12(fs) ELSE r2

\* ---- TF_REATTACH_PROVIDERS ----

NoReattach == [nil |-> TRUE, version |-> 0]
Reattach(version) == [nil |-> FALSE, version |-> version]

\* what getReattachProviders can return for the environment value env: nil
\* when the variable is empty, is no JSON object or holds no entry, else the
\* descriptor of the entry the map iteration visits first
getReattachProviders(env) ==
    IF ~env.set \/ ~env.valid \/ env.descs = {} THEN {NoReattach}
    ELSE {Reattach(d.version) : d \in env.descs}

\* tfplugin.VersionedPlugins[version]: only protocol 5 has a plugin set
VersionedPlugins(version) == IF version = 5 THEN "provider5" ELSE "nil"

\* ---- initProvider, step by step ----

\* the provider blocks a schema reply can carry
ProviderBlocks ==
    {SchemaBlock(<<>>, <<>>), SchemaBlock(<<NameAttr>>, <<>>), SchemaBlock(<<IdAttr>>, <<>>),
     SchemaBlock(<<DynAttr>>, <<>>)}

NoClient ==
    [made |-> FALSE, hasCmd |-> FALSE, cmd |-> NoPath, managed |-> FALSE,
     reattach |-> NoReattach, plugins |-> "nil"]

\* reattach, providerFilePath and the early return on a discovery error
OpenDiscover ==
    /\ oPc = "start"
    /\ \E r \in getReattachProviders(reattachEnv) :
          /\ oReattach' = r
          /\ oFile' = getProviderFileName(fsys)
          /\ IF oFile'.err /\ r.nil
             THEN oPc' = "done" /\ oResult' = "discovery error"
             ELSE oPc' = "newclient" /\ oResult' = oResult
    /\ oEvents' = Append(oEvents, "discover")
    /\ UNCHANGED <<oRequest, fsys, reattachEnv, oConfig, oClient, oSchema>>
    /\ UNCHANGED notOpen

\* a client that keeps the command and stays managed when reattaching
OpenNewClientManaged ==
    /\ oPc = "newclient"
    /\ oClient' = [made |-> TRUE, hasCmd |-> TRUE, cmd |-> oFile.path,
                   managed |-> TRUE, reattach |-> oReattach,
                   plugins |-> IF oReattach.nil THEN "nil"
                               ELSE VersionedPlugins(oReattach.version)]
    /\ oPc' = "connect"
    /\ UNCHANGED <<oRequest, fsys, reattachEnv, oConfig, oReattach, oFile, oEvents, oSchema, oResult>>
    /\ UNCHANGED notOpen

\* exec.Command(providerFilePath) and plugin.NewClient
OpenNewClient ==
    /\ oPc = "newclient"
    /\ oClient' = [made |-> TRUE,
                   hasCmd |-> oReattach.nil,
                   cmd |-> IF oReattach.nil THEN oFile.path ELSE NoPath,
                   managed |-> oReattach.nil,
                   reattach |-> oReattach,
                   plugins |-> IF oReattach.nil THEN "nil"
                               ELSE VersionedPlugins(oReattach.version)]
    /\ oPc' = "connect"
    /\ UNCHANGED <<oRequest, fsys, reattachEnv, oConfig, oReattach, oFile, oEvents, oSchema, oResult>>
    /\ UNCHANGED notOpen

\* p.client.Client(): a client with a command starts it as a subprocess and
\* shakes hands, a client with a reattach descriptor attaches; starting the
\* command of the empty path fails
OpenConnect ==
    /\ oPc = "connect"
    /\ \E ok \in BOOLEAN :
          IF oClient.hasCmd
          THEN IF oClient.cmd = NoPath
               THEN /\ oEvents' = Append(oEvents, "spawn")
                    /\ oPc' = "done" /\ oResult' = "client error"
               ELSE /\ oEvents' = oEvents \o <<"spawn", "handshake">>
                    /\ IF ok THEN oPc' = "dispense" /\ oResult' = oResult
                       ELSE oPc' = "done" /\ oResult' = "client error"
          ELSE /\ oEvents' = oEvents \o <<"attach", "handshake">>
               /\ IF ok THEN oPc' = "dispense" /\ oResult' = oResult
                  ELSE oPc' = "done" /\ oResult' = "client error"
    /\ UNCHANGED <<oRequest, fsys, reattachEnv, oConfig, oReattach, oFile, oClient, oSchema>>
    /\ UNCHANGED notOpen

\* p.rpcClient.Dispense
OpenDispense ==
    /\ oPc = "dispense"
    /\ oEvents' = Append(oEvents, "dispense")
    /\ \E ok \in BOOLEAN :
          IF ok THEN oPc' = "getschema" /\ oResult' = oResult
          ELSE oPc' = "done" /\ oResult' = "dispense error"
    /\ UNCHANGED <<oRequest, fsys, reattachEnv, oConfig, oReattach, oFile, oClient, oSchema>>
    /\ UNCHANGED notOpen

\* p.GetSchema(): the provider's answer is an error or a schema whose
\* provider block is one of ProviderBlocks
OpenFetchSchema ==
    /\ oPc = "getschema"
    /\ oEvents' = Append(oEvents, "getschema")
    /\ \/ oPc' = "done" /\ oResult' = "schema error" /\ oSchema' = oSchema
       \/ \E b \in ProviderBlocks :
             oSchema' = b /\ oPc' = "coerce" /\ oResult' = oResult
    /\ UNCHANGED <<oRequest, fsys, reattachEnv, oConfig, oReattach, oFile, oClient>>
    /\ UNCHANGED notOpen

\* a null p.config becomes the empty object; then CoerceValue against the
\* provider block
OpenCoerce ==
    /\ oPc = "coerce"
    /\ oEvents' = Append(oEvents, "coerce")
    /\ oConfig' = IF IsNull(oConfig) THEN EmptyObjectVal ELSE oConfig
    /\ LET r == CoerceValue(oSchema, oConfig')
       IN  IF r.kind = "ok" THEN oPc' = "configure" /\ oResult' = oResult
           ELSE IF r.kind = "panic" THEN oPc' = "done" /\ oResult' = "panic"
           ELSE oPc' = "done" /\ oResult' = "config error"
    /\ UNCHANGED <<oRequest, fsys, reattachEnv, oReattach, oFile, oClient, oSchema>>
    /\ UNCHANGED notOpen

\* the ConfigureProvider call with NewDynamicValue(config), config being the
\* value CoerceValue returned
OpenConfigure ==
    /\ oPc = "configure"
    /\ LET d == NewDynamicValue(CoerceValue(oSchema, oConfig).val) IN
       IF d.panic
       THEN oPc' = "done" /\ oResult' = "panic" /\ UNCHANGED <<oEvents, oRequest>>
       ELSE /\ oEvents' = Append(oEvents, "configure")
            /\ oRequest' = d.dv
            /\ oPc' = "done"
            /\ \E ok \in BOOLEAN : oResult' = IF ok THEN "ok" ELSE "configure error"
    /\ UNCHANGED <<fsys, reattachEnv, oConfig, oReattach, oFile, oClient, oSchema>>
    /\ UNCHANGED notOpen

OpenNext ==
    \/ OpenDiscover \/ OpenNewClient \/ OpenConnect \/ OpenDispense
    \/ OpenFetchSchema \/ OpenCoerce \/ OpenConfigure

\* ---- the file systems, environments and configurations offered ----

Exe1 == ExePrefix \o <<"_v1">>
Exe2 == ExePrefix \o <<"_v2">>
OtherExe == <<"terraform-provider-", "gcp", "_v1">>

Version(name, files) == Entry(<<name>>, TRUE, Dir(files))
Namespace(versions) == Entry(<<"hashicorp">>, TRUE, versions)

RegistryDirs ==
    {Missing,
     Dir(<<>>),
     Dir(<<Namespace(Missing)>>),
     Dir(<<Namespace(Dir(<<Version("1.0", <<File(OtherExe)>>)>>))>>),
     Dir(<<Namespace(Dir(<<Version("1.0", <<File(Exe1)>>)>>))>>),
     Dir(<<Namespace(Dir(<<Version("1.0", <<File(Exe1)>>),
                      Version("2.0", <<File(OtherExe), File(Exe2)>>)>>))>>),
     Dir(<<Namespace(Dir(<<File(<<"lock">>), Version("1.0", <<File(Exe1)>>)>>))>>)}

LegacyRegistryDirs ==
    {Missing,
     Dir(<<Namespace(Dir(<<Version("1.0", <<File(OtherExe)>>)>>))>>),
     Dir(<<Namespace(Dir(<<Version("0.9", <<File(Exe1)>>)>>))>>)}

FlatDirs ==
    {Missing,
     Dir(<<File(OtherExe)>>),
     Dir(<<File(Exe1), File(Exe2)>>),
     Dir(<<Entry(Exe1, TRUE, Dir(<<>>))>>)}

Prefixes == [v14 : RegistryDirs, v13 : LegacyRegistryDirs, flat : FlatDirs]
FileSystems == [data : Prefixes, home : Prefixes]

EmptyPrefix == [v14 |-> Missing, v13 |-> Missing, flat |-> Missing]
FewFileSystems ==
    {[data |-> EmptyPrefix, home |-> EmptyPrefix],
     [data |-> [EmptyPrefix EXCEPT !.flat = Dir(<<File(Exe1), File(Exe2)>>)],
      home |-> EmptyPrefix],
     [data |-> [EmptyPrefix EXCEPT !.flat = Dir(<<File(OtherExe)>>)],
      home |-> EmptyPrefix]}

EnvUnset == [set |-> FALSE, valid |-> FALSE, descs |-> {}]
ReattachEnvs ==
    {EnvUnset,
     [set |-> TRUE, valid |-> FALSE, descs |-> {}],
     [set |-> TRUE, valid |-> TRUE, descs |-> {}],
     [set |-> TRUE, valid |-> TRUE, descs |-> {[n |-> "aws", version |-> 5]}],
     [set |-> TRUE, valid |-> TRUE, descs |-> {[n |-> "aws", version |-> 6]}],
     [set |-> TRUE, valid |-> TRUE,
      descs |-> {[n |-> "aws", version |-> 5], [n |-> "gcp", version |-> 6]}]}

Configs == {NullVal(DynamicPseudoType), EmptyObjectVal,
            ObjectVal({[n |-> "name", v |-> StringVal("a")]}),
            ObjectVal({[n |-> "dyn", v |-> StringVal("a")]})}

OpenInit ==
    /\ fsys \in FileSystems
    /\ reattachEnv \in ReattachEnvs
    /\ oConfig \in Configs
    /\ \/ reattachEnv = EnvUnset /\ IsNull(oConfig)
       \/ fsys \in FewFileSystems
    /\ oPc = "start"
    /\ oReattach = NoReattach
    /\ oFile = Found(NoPath)
    /\ oClient = NoClient
    /\ oEvents = <<>>
    /\ oRequest = NilDynamicValue
    /\ oSchema = NilBlock
    /\ oResult = "none"

OpenIdle ==
    /\ fsys = [data |-> EmptyPrefix, home |-> EmptyPrefix]
    /\ reattachEnv = EnvUnset
    /\ oConfig = NullVal(DynamicPseudoType)
    /\ oPc = "idle"
    /\ oReattach = NoReattach
    /\ oFile = Found(NoPath)
    /\ oClient = NoClient
    /\ oEvents = <<>>
    /\ oRequest = NilDynamicValue
    /\ oSchema = NilBlock
    /\ oResult = "none"

\* ========================================================================
\* The RPC wrappers of the client (tfplugin/client.go)
\* ========================================================================

MaxDiags == 2
Severities == {"error", "warning", "invalid"}

\* the wrappers that test the response's diagnostics, and the one that does not
DiagMethods ==
    {"GetProviderSchema", "PrepareProviderConfig", "ConfigureProvider",
     "ValidateResourceTypeConfig", "ValidateDataSourceConfig",
     "UpgradeResourceState", "ReadResource", "ReadDataSource",
     "PlanResourceChange", "ApplyResourceChange", "ImportResourceState"}
Methods == DiagMethods \cup {"StopProvider"}

\* what one call finds: whether toproto fails, whether the upstream call
\* fails, whether fromproto fails, and the diagnostics of the response
Upstreams ==
    [toErr : BOOLEAN, rpcErr : BOOLEAN, fromErr : BOOLEAN,
     diags : UNION {[1..n -> Severities] : n \in 0..MaxDiags}]

\* Diagnostics.ToError: the one error, or the errors joined; with a single
\* diagnostic that is no error errs[0] is out of range
ToError(diags) ==
    LET errs == SelectSeq(diags, LAMBDA d : d = "error")
    IN  IF Len(diags) = 1
        THEN IF errs = <<>> THEN "panic" ELSE "error"
        ELSE "errors"

\* a wrapper that keeps the diagnostics test for error and warning alike
wrapTreatsWarnings(up, carriesDiags) ==
    IF up.toErr THEN [ret |-> "nil", err |-> "toproto"]
    ELSE IF up.rpcErr THEN [ret |-> "nil", err |-> "upstream"]
    ELSE IF up.fromErr THEN [ret |-> "nil", err |-> "fromproto"]
    ELSE IF carriesDiags /\ up.diags # <<>> THEN [ret |-> "ret", err |-> "errors"]
    ELSE [ret |-> "ret", err |-> "nil"]

\* the body every wrapper shares: request conversion, upstream call,
\* response conversion, and the diagnostics test
wrap(up, carriesDiags) ==
    IF up.toErr THEN [ret |-> "nil", err |-> "toproto"]
    ELSE IF up.rpcErr THEN [ret |-> "nil", err |-> "upstream"]
    ELSE IF up.fromErr THEN [ret |-> "nil", err |-> "fromproto"]
    ELSE IF carriesDiags /\ HasError(up.diags)
    THEN [ret |-> "ret", err |-> ToError(up.diags)]
    ELSE [ret |-> "ret", err |-> "nil"]

ClientRPC(method, up) == wrap(up, method \in DiagMethods)

NoOut == [ret |-> "nil", err |-> "nil"]
ClientInit ==
    /\ cMethod \in Methods
    /\ cUp \in Upstreams
    /\ cOp = "ready"
    /\ cOut = NoOut

ClientIdle ==
    /\ cMethod = "StopProvider"
    /\ cUp = [toErr |-> FALSE, rpcErr |-> FALSE, fromErr |-> FALSE, diags |-> <<>>]
    /\ cOp = "idle"
    /\ cOut = NoOut

CallWrapper ==
    /\ cOp = "ready"
    /\ cOp' = "done"
    /\ cOut' = ClientRPC(cMethod, cUp)
    /\ UNCHANGED <<cMethod, cUp>>
    /\ UNCHANGED notClient

ClientNext == CallWrapper

\* ========================================================================
\* RefreshResources (terraformutils/utils.go): the regular list through a
\* pool of 16 workers, then the slow groups through a pool of one worker per
\* group, then the collection of the refreshed resources
\* ========================================================================

RegularPoolSize == 16

\* Resources are numbered; the regular list and every group hold their
\* resources in ascending order.
ResIds == 1..MaxItems
Min(a, b) == IF a < b THEN a ELSE b
\* where a resource is put: -1 nowhere, 0 the regular list, g the g-th group
Placements(n) == [ResIds -> -1..n]
Chosen(f, where) == SelectSeq([i \in ResIds |-> i], LAMBDA i : f[i] = where)

\* what r.Refresh(provider) leaves in r.InstanceState: a state with an ID, a
\* state with the empty ID, nil after an error; or the panic of
\* ProviderWrapper.Refresh after a failed ReadResource
RefreshOutcomes == {"id", "empty", "nil", "panic"}

\* the workers DoWorkPooled starts; a worker beyond the number of items only
\* sees the closed input channel
RrWorkers == 1..MaxPool
PoolWorkers(size) == 1..Min(size, MaxPool)
RrPool ==
    CASE rrPhase = "regular" -> PoolWorkers(RegularPoolSize)
      [] rrPhase = "slow" -> PoolWorkers(Len(rrSlow))
      [] OTHER -> {}

NoWork == [item |-> 0, pos |-> 0]
\* the resources the closure refreshes for one item of the pool
WorkList(item) == IF rrPhase = "regular" THEN <<item>> ELSE rrSlow[item]

RrInit ==
    /\ \E n \in 0..MaxPool : \E f \in Placements(n) :
          /\ rrRegular = Chosen(f, 0)
          /\ rrSlow = [g \in 1..n |-> Chosen(f, g)]
    /\ rrState = [i \in ResIds |-> "id"]
    /\ rrCalls = [i \in ResIds |-> 0]
    /\ rrPhase = "regular"
    /\ rrQueue = rrRegular
    /\ rrWork = [w \in RrWorkers |-> NoWork]
    /\ rrOut = <<>>

RrIdle ==
    /\ rrRegular = <<>> /\ rrSlow = <<>>
    /\ rrState = <<>> /\ rrCalls = <<>>
    /\ rrPhase = "idle" /\ rrQueue = <<>> /\ rrWork = <<>> /\ rrOut = <<>>

\* a worker receives the next item and enters the closure
RrTake(w) ==
    /\ rrPhase \in {"regular", "slow"}
    /\ w \in RrPool
    /\ rrWork[w] = NoWork
    /\ rrQueue # <<>>
    /\ rrWork' = [rrWork EXCEPT ![w] = [item |-> Head(rrQueue), pos |-> 1]]
    /\ rrQueue' = Tail(rrQueue)
    /\ UNCHANGED <<rrRegular, rrSlow, rrState, rrCalls, rrPhase, rrOut>>
    /\ UNCHANGED notRr

\* RefreshResource(resource, provider) inside the closure
RrRefresh(w) ==
    /\ rrPhase \in {"regular", "slow"}
    /\ rrWork[w] # NoWork
    /\ rrWork[w].pos <= Len(WorkList(rrWork[w].item))
    /\ LET r == WorkList(rrWork[w].item)[rrWork[w].pos]
       IN  /\ rrCalls' = [rrCalls EXCEPT ![r] = @ + 1]
           /\ \E o \in RefreshOutcomes :
                 IF o = "panic"
                 THEN rrPhase' = "crashed" /\ UNCHANGED <<rrState, rrWork>>
                 ELSE /\ rrState' = [rrState EXCEPT ![r] = o]
                      /\ rrWork' = [rrWork EXCEPT ![w].pos = @ + 1]
                      /\ UNCHANGED rrPhase
    /\ UNCHANGED <<rrRegular, rrSlow, rrQueue, rrOut>>
    /\ UNCHANGED notRr

\* the closure returns nil, nil: no output, no error, wg.Done()
RrReturn(w) ==
    /\ rrPhase \in {"regular", "slow"}
    /\ rrWork[w] # NoWork
    /\ rrWork[w].pos > Len(WorkList(rrWork[w].item))
    /\ rrWork' = [rrWork EXCEPT ![w] = NoWork]
    /\ UNCHANGED <<rrRegular, rrSlow, rrState, rrCalls, rrPhase, rrQueue, rrOut>>
    /\ UNCHANGED notRr

\* wg.Wait() is over and DoWorkPooled returns: on to the next statement
RrPoolDone ==
    /\ rrPhase \in {"regular", "slow"}
    /\ rrQueue = <<>>
    /\ \A w \in RrWorkers : rrWork[w] = NoWork
    /\ IF rrPhase = "regular"
       THEN rrPhase' = "slow" /\ rrQueue' = [g \in 1..Len(rrSlow) |-> g]
       ELSE rrPhase' = "collect" /\ rrQueue' = rrQueue
    /\ UNCHANGED <<rrRegular, rrSlow, rrState, rrCalls, rrWork, rrOut>>
    /\ UNCHANGED notRr

Refreshed(r) == rrState[r] = "id"
RECURSIVE Flatten(_)
Flatten(groups) ==
    IF groups = <<>> THEN <<>> ELSE Head(groups) \o Flatten(Tail(groups))

\* the two loops that build refreshedResources, and the return
RrCollect ==
    /\ rrPhase = "collect"
    /\ rrOut' = SelectSeq(rrRegular, Refreshed) \o SelectSeq(Flatten(rrSlow), Refreshed)
    /\ rrPhase' = "done"
    /\ UNCHANGED <<rrRegular, rrSlow, rrState, rrCalls, rrQueue, rrWork>>
    /\ UNCHANGED notRr

RrNext ==
    \/ \E w \in RrWorkers : RrTake(w)
    \/ \E w \in RrWorkers : RrRefresh(w)
    \/ \E w \in RrWorkers : RrReturn(w)
    \/ RrPoolDone
    \/ RrCollect

\* ========================================================================
\* The codec applied: NewDynamicValue and UnmarshallDynamicValue on the
\* types and values offered
\* ========================================================================

\* ---- the types and values offered ----

NameDyn == Object({[n |-> "name", t |-> String], [n |-> "dyn", t |-> DynamicPseudoType]})
OnlyDyn == Object({[n |-> "dyn", t |-> DynamicPseudoType]})
CodecTypes ==
    {String, Number, Bool, DynamicPseudoType, List(String), Set(String), Map(Number),
     Object({[n |-> "name", t |-> String]}), NameDyn, List(OnlyDyn),
     Tuple(<<String, Number>>)}

Known(ty) ==
    CASE ty = String -> {StringVal("a"), StringVal("b")}
      [] ty = Number -> {NumberVal("1")}
      [] ty = Bool -> {BoolVal("true")}
      [] OTHER -> {}

\* the values that conform to ty, collections of up to MaxElems elements, all
\* of one type
RECURSIVE CodecValues(_)
SameTyped(ety) ==
    {q \in UNION {[1..n -> CodecValues(ety)] : n \in 1..MaxElems} :
        ~InconsistentTypes(SeqTypes(q))}
CodecValues(ty) ==
    {NullVal(ty), UnknownVal(ty)} \cup
    CASE ty.k \in {"string", "number", "bool"} -> Known(ty)
      [] ty.k = "dynamic" -> {StringVal("a"), NumberVal("1")}
      [] ty.k = "list" ->
           {ListValEmpty(ty.e)} \cup
           {ListVal(q) : q \in SameTyped(ty.e)}
      [] ty.k = "set" ->
           {SetValEmpty(ty.e)} \cup
           {SetVal(q) : q \in SameTyped(ty.e)}
      [] ty.k = "map" ->
           {MapValEmpty(ty.e)} \cup
           {MapVal({[n |-> "k1", v |-> x]}) : x \in CodecValues(ty.e)} \cup
           {MapVal({[n |-> "k1", v |-> q[1]], [n |-> "k2", v |-> q[2]]}) :
               q \in {r \in SameTyped(ty.e) : Len(r) = 2}}
      [] ty.k = "tuple" ->
           {TupleVal(<<x, y>>) : x \in CodecValues(ty.es[1]), y \in CodecValues(ty.es[2])}
      [] ty.k = "object" ->
           {ObjectVal({[n |-> a.n, v |-> f[a.n]] : a \in ty.a}) :
               f \in {g \in [{a.n : a \in ty.a} -> UNION {CodecValues(a.t) : a \in ty.a}] :
                        \A a \in ty.a : g[a.n] \in CodecValues(a.t)}}
      [] OTHER -> {}

\* what a provider may send for a value of type ty: nil, no payload, one
\* payload, both payloads (of different values)
GivenDynamicValues(ty) ==
    LET enc(fmt, v) == Marshal(fmt, v, ty).bytes
        vs == {v \in CodecValues(ty) : IsKnown(v) /\ ~IsNull(v)}
    IN  {NilDynamicValue, DynamicValue(NoBytes, NoBytes),
         DynamicValue(PrimCode("bool", "bad"), NoBytes),
         DynamicValue(NoBytes, PrimCode("bool", "bad"))}
        \cup {DynamicValue(enc("msgpack", v), NoBytes) : v \in vs}
        \cup {DynamicValue(NoBytes, enc("json", v)) : v \in vs}
        \cup {DynamicValue(enc("msgpack", v), enc("json", w)) :
                 v \in vs, w \in {x \in vs : x.ty.k # "list"}}

NoDecoded == [err |-> FALSE, val |-> NullVal(String)]
CodecInit ==
    /\ cdTy \in CodecTypes
    /\ cdVal \in CodecValues(cdTy)
    /\ \/ cdOp = "none" /\ cdDyn = NilDynamicValue
       \/ cdOp = "given" /\ cdDyn \in GivenDynamicValues(cdTy) /\ cdVal = NullVal(cdTy)
    /\ cdOut = NoDecoded

CodecIdle ==
    /\ cdTy = String /\ cdVal = NullVal(String) /\ cdDyn = NilDynamicValue
    /\ cdOp = "idle" /\ cdOut = NoDecoded

\* NewDynamicValue(V)
CodecEncode ==
    /\ cdOp = "none"
    /\ LET r == NewDynamicValue(cdVal)
       IN  /\ cdOp' = IF r.panic THEN "panic" ELSE "encoded"
           /\ cdDyn' = r.dv
    /\ UNCHANGED <<cdTy, cdVal, cdOut>>
    /\ UNCHANGED notCodec

\* UnmarshallDynamicValue(dv, T)
CodecDecode ==
    /\ cdOp \in {"encoded", "given"}
    /\ cdOp' = IF cdOp = "encoded" THEN "roundtrip" ELSE "decoded"
    /\ cdOut' = DecodeDynamicValue(cdDyn, cdTy)
    /\ UNCHANGED <<cdTy, cdVal, cdDyn>>
    /\ UNCHANGED notCodec

CodecNext == CodecEncode \/ CodecDecode

\* ========================================================================
\* Specifications
\* ========================================================================

InitPool ==
    PoolInit /\ pSchema = NoSchema /\ GsIdle /\ RefreshIdle /\ SchemaIdle /\ RoIdle /\ OpenIdle
        /\ ClientIdle /\ RrIdle /\ CodecIdle
SpecPool == InitPool /\ [][PoolNext]_vars

\* The scheduler runs every goroutine that can take a step.
FairSpecPool == SpecPool /\ WF_vars(PoolNext)

InitRefresh ==
    RefreshInit /\ GsIdle /\ PoolIdle /\ SchemaIdle /\ RoIdle /\ OpenIdle
        /\ ClientIdle /\ RrIdle /\ CodecIdle
SpecRefresh == InitRefresh /\ [][RefreshNext]_vars

InitGetSchema ==
    GsInit /\ RefreshIdle /\ PoolIdle /\ SchemaIdle /\ RoIdle /\ OpenIdle
        /\ ClientIdle /\ RrIdle /\ CodecIdle
SpecGetSchema == InitGetSchema /\ [][GetSchemaNext]_vars

InitSchema ==
    SchemaInit /\ pSchema = NoSchema /\ GsIdle /\ RefreshIdle /\ PoolIdle /\ RoIdle /\ OpenIdle
        /\ ClientIdle /\ RrIdle /\ CodecIdle
SpecSchema == InitSchema /\ [][SchemaNext]_vars

InitReadOnly ==
    RoInit /\ pSchema = NoSchema /\ GsIdle /\ RefreshIdle /\ PoolIdle /\ SchemaIdle
        /\ OpenIdle /\ ClientIdle /\ RrIdle /\ CodecIdle
SpecReadOnly == InitReadOnly /\ [][ReadOnlyNext]_vars

InitOpen ==
    OpenInit /\ pSchema = NoSchema /\ GsIdle /\ RefreshIdle /\ PoolIdle /\ SchemaIdle
        /\ RoIdle /\ ClientIdle /\ RrIdle /\ CodecIdle
SpecOpen == InitOpen /\ [][OpenNext]_vars

InitClient ==
    ClientInit /\ pSchema = NoSchema /\ GsIdle /\ RefreshIdle /\ PoolIdle /\ SchemaIdle
        /\ RoIdle /\ OpenIdle /\ RrIdle /\ CodecIdle
SpecClient == InitClient /\ [][ClientNext]_vars

InitRr ==
    RrInit /\ pSchema = NoSchema /\ GsIdle /\ RefreshIdle /\ PoolIdle /\ SchemaIdle
        /\ RoIdle /\ OpenIdle /\ ClientIdle /\ CodecIdle
SpecRr == InitRr /\ [][RrNext]_vars

\* The scheduler runs every goroutine that can take a step.
FairSpecRr == SpecRr /\ WF_vars(RrNext)

InitCodec ==
    CodecInit /\ pSchema = NoSchema /\ GsIdle /\ RefreshIdle /\ PoolIdle /\ SchemaIdle
        /\ RoIdle /\ OpenIdle /\ ClientIdle /\ RrIdle
SpecCodec == InitCodec /\ [][CodecNext]_vars

\* ------------------------------------------------------------------------
\* Properties of DoWorkPooled

Fails(i) == RunTask(task, items[i]).kind = "fail"
NoFail == \A i \in 1..Len(items) : ~Fails(i)
SomeFail == \E i \in 1..Len(items) : Fails(i)

\* Index of the first failing item, Len(items) + 1 when none fails.
FirstFail ==
    IF SomeFail THEN CHOOSE i \in 1..Len(items) :
                        Fails(i) /\ \A j \in 1..(i - 1) : ~Fails(j)
    ELSE Len(items) + 1

\* The non-nil outputs of the task on items 1..n, in input order.
OutsOf(n) ==
    LET sel == SelectSeq([i \in 1..n |-> i],
                         LAMBDA i : RunTask(task, items[i]).kind = "out")
    IN [j \in 1..Len(sel) |-> RunTask(task, items[sel[j]]).val]

SeqToBag(s) ==
    [v \in {s[i] : i \in DOMAIN s} |-> Cardinality({i \in DOMAIN s : s[i] = v})]

\* The error recorded first: the one in errout, or the one already returned.
RecordedErr == IF retErr # Nil THEN retErr
               ELSE IF errout # <<>> THEN Head(errout) ELSE Nil

\* C1: with poolSize > 0 the call never deadlocks: in every reachable state it
\* has returned (exactly once) or some goroutine can take a step.
PoolNeverDeadlocks ==
    (poolSize > 0) =>
        /\ returns <= 1
        /\ (mainPc = "returned") = (returns = 1)
        /\ mainPc = "returned" \/ ENABLED PoolNext

\* C8: with poolSize > 0 and no failing task the call runs to its return, and
\* returns a nil error and, as a multiset, the non-nil outputs of the task
\* applied once to every item.
PoolAllOutputs ==
    (poolSize > 0 /\ NoFail) =>
        /\ mainPc = "returned" \/ ENABLED PoolNext
        /\ mainPc # "panic"
        /\ mainPc = "returned" =>
              /\ retErr = Nil
              /\ SeqToBag(itemsout) = SeqToBag(OutsOf(Len(items)))
              /\ Len(started) = Len(items)

\* C8 witness: a pooled run without failure has returned three outputs, in an
\* order that is not the input order.
PoolAllOutputsWitness ==
    /\ poolSize > 1
    /\ NoFail
    /\ mainPc = "returned"
    /\ Len(itemsout) = MaxItems
    /\ itemsout # OutsOf(Len(items))

\* C9: with poolSize > 0, once a task error is recorded and the pool has come
\* to rest, the call has returned that first recorded error together with a
\* strict sub-multiset of the items' outputs.
PoolErrorReturned ==
    (poolSize > 0 /\ RecordedErr # Nil /\ ~ENABLED PoolNext) =>
        /\ mainPc = "returned"
        /\ retErr = RecordedErr
        /\ SeqToBag(itemsout) \sqsubseteq SeqToBag(OutsOf(Len(items)))
        /\ Len(itemsout) < Len(items)

\* C10: with poolSize == 0 the items are handed to the task one at a time in
\* input order, nothing after the first failing item; the call returns the
\* outputs of the items before it, in input order, with its error (all
\* non-nil outputs and a nil error when none fails).
SequentialInOrder ==
    (poolSize = 0) =>
        /\ started = [i \in 1..Len(started) |-> i]
        /\ Len(started) <= FirstFail
        /\ mainPc # "returned" => retErr = Nil /\ itemsout = <<>>
        /\ mainPc = "returned" =>
              /\ returns = 1
              /\ itemsout = OutsOf(FirstFail - 1)
              /\ retErr = (IF SomeFail THEN items[FirstFail] ELSE Nil)
              /\ Len(started) = (IF SomeFail THEN FirstFail ELSE Len(items))

\* C10 witness: a sequential run stopped at a failing second item of three,
\* returning the first item's output and the error.
SequentialInOrderWitness ==
    /\ poolSize = 0
    /\ mainPc = "returned"
    /\ Len(items) = MaxItems
    /\ FirstFail = 2
    /\ Len(itemsout) = 1
    /\ retErr = items[2]
    /\ started = <<1, 2>>

\* ------------------------------------------------------------------------
\* Properties of Refresh

\* A read attempt fails: an RPC error, or a response with a null new state.
ReadFails(up) ==
    LET r == ClientReadResource(up) IN r.err \/ r.NewState.isNil

\* The first attempt the provider answers with a non-null state, 0 when none.
FirstGood ==
    IF \E k \in 1..retryCount : ~ReadFails(readScript[k])
    THEN CHOOSE k \in 1..retryCount :
            ~ReadFails(readScript[k]) /\ \A j \in 1..(k - 1) : ReadFails(readScript[j])
    ELSE 0

Count(tr, ev) == Cardinality({i \in DOMAIN tr : tr[i] = ev})

\* The schema is there and the prior state converts: the retry loop is entered.
PreludeOk == priorOk /\ (pSchema # NoSchema \/ ~schemaReply.err)

RefreshEnded == rPc \in {"done", "panic"}

\* What Refresh returns for the wire state dv.
DecodedResult(dv) ==
    LET d == UnmarshallDynamicValue(dv) IN
    IF d.err THEN ErrResult(d.val)
    ELSE [kind |-> "state", val |-> d.val, version |-> pSchema.version]

\* C2: when the provider fails the read attempts 1..k-1 and answers attempt
\* k <= retryCount with a non-null state, Refresh returns the state decoded
\* from attempt k after exactly k ReadResource calls, and never imports.
RetryReturnsFirstGood ==
    (PreludeOk /\ FirstGood > 0) =>
        /\ Count(rTrace, "ImportResourceState") = 0
        /\ RefreshEnded =>
              /\ rResult = DecodedResult(readScript[FirstGood].state)
              /\ Count(rTrace, "ReadResource") = FirstGood

\* C3: when the provider fails all retryCount read attempts, exactly one
\* ImportResourceState call is issued; the first imported resource's state is
\* decoded and returned, and Refresh fails when the import errors or returns
\* no resource.
ImportAfterRetries ==
    (PreludeOk /\ FirstGood = 0) =>
        /\ Count(rTrace, "ImportResourceState") <= 1
        /\ RefreshEnded =>
              /\ Count(rTrace, "ReadResource") = retryCount
              /\ Count(rTrace, "ImportResourceState") = 1
              /\ LET r == ClientImportResourceState(importReply) IN
                 IF r.err \/ Len(r.ImportedResources) = 0
                 THEN rResult.kind = "error"
                 ELSE rResult = DecodedResult(r.ImportedResources[1])

\* C4: every failed read attempt (transport error, error diagnostic, null
\* state) is logged and followed by the backoff and the next attempt; it never
\* ends Refresh abnormally, and nothing is returned to the caller before the
\* retries and the import are exhausted.
ReadFailureRetried ==
    PreludeOk =>
        /\ rResult.kind # "panic"
        /\ LET n == Count(rTrace, "ReadResource") IN
           /\ Count(rTrace, "sleep") = Cardinality({j \in 1..n : ReadFails(readScript[j])})
           /\ RefreshEnded => n = (IF FirstGood > 0 THEN FirstGood ELSE retryCount)
        /\ (RefreshEnded /\ FirstGood = 0) => Count(rTrace, "ImportResourceState") = 1

\* ------------------------------------------------------------------------
\* Properties of GetSchema

\* C5: GetSchema is single-flight: of the callers that find no cached schema
\* at most one is between the nil check and the store, so one
\* GetProviderSchema RPC fills the cache, and all callers that get a schema
\* get the same one.
GetSchemaSingleFlight ==
    /\ Cardinality({c \in Callers : gPc[c] \in {"rpc", "store"}}) <= 1
    /\ \A c, d \in Callers :
          (gResult[c].kind = "schema" /\ gResult[d].kind = "schema")
              => gResult[c].gen = gResult[d].gen

\* ------------------------------------------------------------------------
\* Properties of the schema type engine

RECURSIVE HasNilBlock(_)
HasNilBlock(b) == b.nil \/ \E i \in DOMAIN b.blocks : HasNilBlock(b.blocks[i].block)

\* a schema ImpliedType accepts, with every nested block present
ValidSchema(b) == ~HasNilBlock(b) /\ ImpliedType(b).ok

\* C6: for every valid schema Block B, the type of Block.EmptyValue(B)
\* conforms to Block.ImpliedType(B).
EmptyValueConforms ==
    (op = "EmptyValue" /\ ValidSchema(schema))
        => /\ res.kind = "ok"
           /\ TestConformance(res.ty, ImpliedType(schema).ty)

\* C7: for every valid schema Block B and every input V, whenever
\* CoerceValue(B, V) succeeds, the type of the returned value conforms to
\* Block.ImpliedType(B).
CoerceValueConforms ==
    (op = "CoerceValue" /\ ValidSchema(schema) /\ res.kind = "ok")
        => TestConformance(res.ty, ImpliedType(schema).ty)

\* ---- required attributes (C11) ----

IsKnownObject(v) == v.st = "known" /\ IsObjectType(v.ty)

Declared(b) ==
    {b.attrs[i].name : i \in DOMAIN b.attrs} \cup {b.blocks[i].name : i \in DOMAIN b.blocks}

NoUnexpected(b, v) == {x.n : x \in v.ty.a} \subseteq Declared(b)

MustBeSet(attrS) == ~(attrS.computed \/ attrS.optional)

\* attribute i of b goes through coercion without an error
AttrPasses(b, v, i) ==
    IF HasAttribute(v.ty, b.attrs[i].name)
    THEN Convert(GetAttr(v, b.attrs[i].name), b.attrs[i].type).ok
    ELSE ~MustBeSet(b.attrs[i])

\* the first attribute of b, in schema order, that v leaves out though it
\* must be set, every earlier attribute passing; 0 when there is none
FirstMissing(b, v) ==
    LET miss == {i \in DOMAIN b.attrs :
                    /\ MustBeSet(b.attrs[i])
                    /\ ~HasAttribute(v.ty, b.attrs[i].name)
                    /\ \A j \in 1..(i - 1) : AttrPasses(b, v, j)}
    IN  IF miss = {} THEN 0 ELSE CHOOSE i \in miss : TRUE

MissingRequiredCase ==
    /\ op = "CoerceValue"
    /\ ValidSchema(schema)
    /\ IsKnownObject(inVal)
    /\ NoUnexpected(schema, inVal)
    /\ FirstMissing(schema, inVal) > 0

\* C11 (as stated): CoerceValue on an object that lacks a required attribute
\* fails with an error whose path is the path of the missing attribute
\* (.name for a schema with one required attribute name).
MissingRequiredAtAttributePath ==
    MissingRequiredCase
        => /\ res.kind = "err"
           /\ res.path = <<GetAttrStep(schema.attrs[FirstMissing(schema, inVal)].name)>>

\* C11 (amended): CoerceValue on a top-level object that lacks a required
\* attribute fails with the error "attribute is required" that names the
\* attribute in its message and carries the path of the object that lacks it,
\* which is the empty path.
MissingRequiredAtBlockPath ==
    MissingRequiredCase
        => /\ res.kind = "err"
           /\ res.msg = "attribute is required"
           /\ res.arg = schema.attrs[FirstMissing(schema, inVal)].name
           /\ res.path = <<>>

MissingRequiredWitness ==
    /\ MissingRequiredCase
    /\ inVal = EmptyObjectVal
    /\ schema.attrs = <<NameAttr>>
    /\ res.kind = "err" /\ res.arg = "name"

\* ---- the empty value of each nested block (C12, C13) ----

ChildType(blockS) == ImpliedType(blockS.block).ty

DynamicColl(blockS) ==
    blockS.nesting \in {"list", "map"} /\ HasDynamicTypes(ChildType(blockS))

EmptyValueCase == op = "EmptyValue" /\ ValidSchema(schema)

\* C12: Block.EmptyValue gives every attribute a null of its declared type
\* and every nested block: single => a null of the child object type; group
\* => the child's own empty value; list, set, map without dynamic attributes
\* => an empty list, set, map whose element type is the child's implied type.
EmptyValuePerNesting ==
    EmptyValueCase
        => /\ res.kind = "ok"
           /\ \A i \in DOMAIN schema.attrs :
                 GetAttr(res.val, schema.attrs[i].name) = NullVal(schema.attrs[i].type)
           /\ \A i \in DOMAIN schema.blocks :
                 LET blockS == schema.blocks[i]
                     got == GetAttr(res.val, blockS.name)
                     ct == ChildType(blockS)
                 IN  \/ DynamicColl(blockS)
                     \/ /\ blockS.nesting = "single" => got = NullVal(ct)
                        /\ blockS.nesting = "group" => got = EmptyValue(blockS.block).val
                        /\ blockS.nesting = "list" => got = ListValEmpty(ct)
                        /\ blockS.nesting = "set" => got = SetValEmpty(ct)
                        /\ blockS.nesting = "map" => got = MapValEmpty(ct)

\* C13: for a list or map nested block whose child contains a fully-dynamic
\* attribute, Block.EmptyValue of the parent yields an empty tuple (list) or
\* an empty object (map), not a typed empty list or map.
EmptyValueDynamicPlaceholder ==
    EmptyValueCase
        => /\ res.kind = "ok"
           /\ \A i \in DOMAIN schema.blocks :
                 LET blockS == schema.blocks[i]
                     got == GetAttr(res.val, blockS.name)
                 IN  DynamicColl(blockS)
                        => got = IF blockS.nesting = "list" THEN TupleVal(<<>>)
                                 ELSE EmptyObjectVal

\* ---- nested blocks the input leaves out (C14) ----

CoercedCase ==
    /\ op = "CoerceValue"
    /\ ValidSchema(schema)
    /\ IsKnownObject(inVal)
    /\ res.kind = "ok"

\* C14: CoerceValue on an object that omits a nested block substitutes that
\* block's empty value: a null of the child object type for single nesting,
\* the child's empty object for group nesting, and an empty list, set, map
\* typed by the child's implied type for list, set, map nesting.
OmittedBlockGetsEmptyValue ==
    CoercedCase
        => \A i \in DOMAIN schema.blocks :
              LET blockS == schema.blocks[i]
                  got == GetAttr(res.val, blockS.name)
                  ct == ChildType(blockS)
              IN  ~HasAttribute(inVal.ty, blockS.name)
                     => /\ blockS.nesting = "single" => got = NullVal(ct)
                        /\ blockS.nesting = "group" => got = EmptyValue(blockS.block).val
                        /\ blockS.nesting = "list" => got = ListValEmpty(ct)
                        /\ blockS.nesting = "set" => got = SetValEmpty(ct)
                        /\ blockS.nesting = "map" => got = MapValEmpty(ct)

\* ---- optional and computed attributes the input leaves out (C15) ----

\* attribute i of b may be left out, and v leaves it out
OmitsOptional(b, v, i) ==
    /\ ~MustBeSet(b.attrs[i])
    /\ ~HasAttribute(v.ty, b.attrs[i].name)

OmittedOptionalCase ==
    /\ op = "CoerceValue"
    /\ ValidSchema(schema)
    /\ IsKnownObject(inVal)
    /\ \E i \in DOMAIN schema.attrs : OmitsOptional(schema, inVal, i)

\* C15: CoerceValue on an object that omits an attribute flagged optional or
\* computed does not fail over that attribute, succeeds when the Block has no
\* nested block and nothing else is wrong with the object, and gives the
\* attribute a null of its declared type; for the schema with the one
\* optional and computed attribute id, the empty object gives {id: null}.
OmittedOptionalIsNull ==
    OmittedOptionalCase
        => /\ \A i \in DOMAIN schema.attrs :
                 OmitsOptional(schema, inVal, i)
                    => /\ ~(res.kind = "err" /\ res.arg = schema.attrs[i].name)
                       /\ res.kind = "ok"
                             => GetAttr(res.val, schema.attrs[i].name)
                                   = NullVal(schema.attrs[i].type)
           /\ ( /\ schema.blocks = <<>>
                /\ NoUnexpected(schema, inVal)
                /\ \A j \in DOMAIN schema.attrs : AttrPasses(schema, inVal, j) )
                 => res.kind = "ok"
           /\ (schema = SchemaBlock(<<IdAttr>>, <<>>) /\ inVal = EmptyObjectVal)
                 => /\ res.kind = "ok"
                    /\ res.val = ObjectVal({[n |-> "id", v |-> NullVal(Number)]})

OmittedOptionalWitness ==
    /\ OmittedOptionalCase
    /\ schema = SchemaBlock(<<IdAttr>>, <<>>)
    /\ inVal = EmptyObjectVal
    /\ res.kind = "ok"

\* ---- attributes the Block does not declare (C16) ----

\* the undeclared attributes of v and of the objects v gives for the nested
\* blocks of b, each with the path of the object that holds it
RECURSIVE UndeclaredAt(_, _, _)
UndeclaredAt(b, v, path) ==
    IF b.nil \/ ~IsKnownObject(v) THEN {}
    ELSE
    {[path |-> path, n |-> n] : n \in {x.n : x \in v.ty.a} \ Declared(b)} \cup
    UNION {LET blockS == b.blocks[i]
               c == GetAttr(v, blockS.name)
               p1 == Append(path, GetAttrStep(blockS.name))
               els == Elements(c)
           IN  IF ~HasAttribute(v.ty, blockS.name) THEN {}
               ELSE IF blockS.nesting \in {"single", "group"}
               THEN UndeclaredAt(blockS.block, c, p1)
               ELSE IF ~IsKnown(c) \/ ~CanIterateElements(c) THEN {}
               ELSE UNION {UndeclaredAt(blockS.block, els[j].v,
                                        Append(p1, IndexStep(els[j].key))) :
                              j \in DOMAIN els}
           : i \in DOMAIN b.blocks}

UndeclaredCase ==
    /\ op = "CoerceValue"
    /\ ValidSchema(schema)
    /\ IsKnownObject(inVal)
    /\ UndeclaredAt(schema, inVal, <<>>) # {}

\* C16 (as stated): CoerceValue fails, at any nesting depth, whenever the
\* input object has an attribute that the Block declares neither as an
\* attribute nor as a nested block name, and the error carries the path of
\* that attribute.
UndeclaredAtAttributePath ==
    UndeclaredCase
        => /\ res.kind = "err"
           /\ \E u \in UndeclaredAt(schema, inVal, <<>>) :
                 res.path = Append(u.path, GetAttrStep(u.n))

\* C16 (amended): CoerceValue fails, at any nesting depth, whenever the input
\* object has an undeclared attribute, never dropping it; an error "unexpected
\* attribute" names an undeclared attribute, and when the top-level object
\* holds one the error is that one and carries the path of the object that
\* holds the attribute, which is the empty path.
UndeclaredRejected ==
    UndeclaredCase
        => LET und == UndeclaredAt(schema, inVal, <<>>)
           IN  /\ res.kind = "err"
               /\ res.msg = "unexpected attribute" => \E u \in und : res.arg = u.n
               /\ (\E u \in und : u.path = <<>>)
                     => /\ res.msg = "unexpected attribute"
                        /\ \E u \in und : u.path = <<>> /\ res.arg = u.n
                        /\ res.path = <<>>

UndeclaredWitness ==
    /\ UndeclaredCase
    /\ \A u \in UndeclaredAt(schema, inVal, <<>>) : Len(u.path) = 2
    /\ res.kind = "err"
    /\ res.msg = "unexpected attribute"

\* ---- the shape of the implied type (C17) ----

\* the field a nested block contributes, from the implied type of its child
BlockFieldType(blockS) ==
    LET ct == ChildType(blockS)
    IN  CASE blockS.nesting \in {"single", "group"} -> ct
          [] blockS.nesting = "list" ->
                IF HasDynamicTypes(ct) THEN DynamicPseudoType ELSE List(ct)
          [] blockS.nesting = "set" -> Set(ct)
          [] blockS.nesting = "map" ->
                IF HasDynamicTypes(ct) THEN DynamicPseudoType ELSE Map(ct)

ImpliedTypeCase == op = "ImpliedType" /\ res.kind = "ok"

\* C17: Block.ImpliedType is an object type with one field per attribute, of
\* its declared type, and one per nested block: the child's implied object
\* type for single and group, the list, set, map of the child type for list,
\* set, map, except that list and map give the fully-dynamic type when the
\* child type contains a fully-dynamic attribute; a nil Block implies the
\* empty object type.
ImpliedTypeShape ==
    ImpliedTypeCase
        => IF schema.nil THEN res.ty = EmptyObject
           ELSE /\ IsObjectType(res.ty)
                /\ {x.n : x \in res.ty.a} = Declared(schema)
                /\ Cardinality(res.ty.a) = Len(schema.attrs) + Len(schema.blocks)
                /\ \A i \in DOMAIN schema.attrs :
                      AttributeType(res.ty, schema.attrs[i].name) = schema.attrs[i].type
                /\ \A i \in DOMAIN schema.blocks :
                      /\ AttributeType(res.ty, schema.blocks[i].name)
                            = BlockFieldType(schema.blocks[i])
                      /\ schema.blocks[i].nesting \in {"single", "group"}
                            => IsObjectType(ChildType(schema.blocks[i]))

ImpliedTypeShapeWitness ==
    /\ ImpliedTypeCase
    /\ Len(schema.attrs) > 0
    /\ \E i \in DOMAIN schema.blocks :
          /\ schema.blocks[i].nesting = "map"
          /\ HasDynamicTypes(ChildType(schema.blocks[i]))
          /\ AttributeType(res.ty, schema.blocks[i].name) = DynamicPseudoType

\* ---- schemas ImpliedType refuses (C18) ----

AttrNames(b) == {b.attrs[i].name : i \in DOMAIN b.attrs}

\* a set nested block over a child type with a fully-dynamic attribute, in b
\* or below it
RECURSIVE HasDynamicSet(_)
HasDynamicSet(b) ==
    /\ ~b.nil
    /\ \E i \in DOMAIN b.blocks :
          \/ HasDynamicSet(b.blocks[i].block)
          \/ /\ b.blocks[i].nesting = "set"
             /\ ImpliedType(b.blocks[i].block).ok
             /\ HasDynamicTypes(ChildType(b.blocks[i]))

\* an attribute and a nested block of one Block share a name, in b or below
RECURSIVE HasAttrBlockCollision(_)
HasAttrBlockCollision(b) ==
    /\ ~b.nil
    /\ \E i \in DOMAIN b.blocks :
          \/ HasAttrBlockCollision(b.blocks[i].block)
          \/ b.blocks[i].name \in AttrNames(b)

\* two nested blocks of one Block share a name, in b or below
RECURSIVE HasBlockBlockCollision(_)
HasBlockBlockCollision(b) ==
    /\ ~b.nil
    /\ \E i \in DOMAIN b.blocks :
          \/ HasBlockBlockCollision(b.blocks[i].block)
          \/ \E j \in 1..(i - 1) : b.blocks[j].name = b.blocks[i].name

\* a nested block whose nesting mode is none of the five, in b or below
RECURSIVE HasInvalidNesting(_)
HasInvalidNesting(b) ==
    /\ ~b.nil
    /\ \E i \in DOMAIN b.blocks :
          \/ HasInvalidNesting(b.blocks[i].block)
          \/ b.blocks[i].nesting \notin NestingModes

MapBlockCase(i) ==
    /\ op = "CoerceValue"
    /\ ValidSchema(schema)
    /\ IsKnownObject(inVal)
    /\ schema.blocks[i].nesting = "map"
    /\ HasAttribute(inVal.ty, schema.blocks[i].name)
    /\ IsKnown(GetAttr(inVal, schema.blocks[i].name))
    /\ CanIterateElements(GetAttr(inVal, schema.blocks[i].name))
    /\ LengthInt(GetAttr(inVal, schema.blocks[i].name)) > 0

\* the name to value pairs of an object or map value
Entries(v) == IF IsObjectType(v.ty) THEN v.o ELSE v.m

Join(prefix, seg) == IF prefix = <<>> THEN seg ELSE prefix \o Dot \o seg

\* the flattened path of one instance of nested block blockS under prefix:
\* a list or set element has an index segment, a map element a key segment
InstancePath(prefix, blockS) ==
    LET at == Join(prefix, Str(blockS.name))
    IN  CASE blockS.nesting \in {"list", "set"} -> Join(at, <<"0">>)
          [] blockS.nesting = "map" -> Join(at, <<"k">>)
          [] OTHER -> at

\* every nested block at and below block, with the path of an instance
RECURSIVE NestedAt(_, _)
NestedAt(block, prefix) ==
    UNION {LET at == InstancePath(prefix, block[i])
           IN  {[blockS |-> block[i], at |-> at]}
                  \cup (IF block[i].block.nil THEN {}
                        ELSE NestedAt(block[i].block.blocks, at))
           : i \in DOMAIN block}

PurelyComputed(l) == l.computed /\ ~l.optional /\ ~l.required
Settable(l) == l.required \/ l.optional
AttrsOf(blockS) == {blockS.block.attrs[i] : i \in DOMAIN blockS.block.attrs}

\* the block of resource n in the session
ResourceBlock(n) == (CHOOSE r \in roSession.resources : r.n = n).block

\* the list and set nested blocks of resource n that hold a purely computed
\* and a settable attribute
ListSetTargets(n) ==
    {t \in NestedAt(ResourceBlock(n).blocks, <<>>) :
        /\ t.blockS.nesting \in {"list", "set"}
        /\ \E l \in AttrsOf(t.blockS) : PurelyComputed(l)
        /\ \E l \in AttrsOf(t.blockS) : Settable(l)}

ReadOnlyDone == roOp = "GetReadOnlyAttributes" /\ roOut.kind = "ok"

\* C20: for a list or set nested block that holds a purely computed and a
\* settable attribute, at top level or nested under a parent, the patterns
\* GetReadOnlyAttributes emits match the flattened path of the computed
\* attribute (policy.0.arn) and none matches the flattened path of the
\* settable attribute (policy.0.name).
ListSetPatternsSeparate ==
    ReadOnlyDone
        => \A r \in roOut.attrs : \A t \in ListSetTargets(r.n) :
              \A l \in AttrsOf(t.blockS) :
                 /\ PurelyComputed(l) => isAttributeIgnored(Join(t.at, Str(l.name)), r.pats)
                 /\ Settable(l) => ~isAttributeIgnored(Join(t.at, Str(l.name)), r.pats)

\* ---- one matching pattern per purely computed attribute (C21) ----

\* the flattened path of nested block blockS built from the enclosing block
\* names: <block>.<index> for a list or set element, <block> otherwise
NamedPath(prefix, blockS) ==
    LET at == Join(prefix, Str(blockS.name))
    IN  IF blockS.nesting \in {"list", "set"} THEN Join(at, <<"0">>) ELSE at

RECURSIVE NestedNamed(_, _)
NestedNamed(block, prefix) ==
    UNION {LET at == NamedPath(prefix, block[i])
           IN  {[blockS |-> block[i], at |-> at]}
                  \cup (IF block[i].block.nil THEN {}
                        ELSE NestedNamed(block[i].block.blocks, at))
           : i \in DOMAIN block}

\* C21: GetReadOnlyAttributes returns, for each requested resource type present
\* in the schema and for no other, a list that starts with ^id$ and holds, for
\* every purely computed attribute at every nesting depth and in every nesting
\* mode, a pattern that matches the attribute's flattened path built from its
\* enclosing block names (<block>.<attr> for a top-level single, group or map
\* block).
EveryComputedAttributeMatched ==
    ReadOnlyDone
        => /\ {r.n : r \in roOut.attrs} = {r.n : r \in roSession.resources} \cap roTypes
           /\ \A r \in roOut.attrs :
                 /\ Len(r.pats) > 0 /\ r.pats[1] = IdPattern
                 /\ \A i \in DOMAIN ResourceBlock(r.n).attrs :
                       LET l == ResourceBlock(r.n).attrs[i]
                       IN  (PurelyComputed(l) /\ l.type.k \notin {"list", "set"})
                              => isAttributeIgnored(Str(l.name), r.pats)
                 /\ \A t \in NestedNamed(ResourceBlock(r.n).blocks, <<>>) :
                       \A l \in AttrsOf(t.blockS) :
                          PurelyComputed(l)
                             => isAttributeIgnored(Join(t.at, Str(l.name)), r.pats)

\* ---- whole-block patterns (C22) ----

\* the pattern that matches the whole path at of a block and what lies below
WholeBlockPattern(at) == <<Bol, Lit(at)>>

\* the pattern list holds a pattern made for attribute key alone: one that
\* ends in the attribute name, or in the name and the list suffixes
PerAttributePattern(pat, key) ==
    \E i \in DOMAIN pat :
       /\ pat[i] = Lit(key)
       /\ i > 1 /\ pat[i - 1] = Lit(Dot)
       /\ \A j \in (i + 1)..Len(pat) : pat[j].t \in {"eol", "alt"}

ZeroSettable(blockS) == \A l \in AttrsOf(blockS) : ~Settable(l)

\* C22: for a group or single nested block with zero settable attributes the
\* whole block path is emitted as one pattern and no per-attribute pattern is
\* emitted for that block; a block with at least one settable attribute never
\* gets a whole-block pattern.
WholeBlockShortCircuit ==
    ReadOnlyDone
        => \A r \in roOut.attrs :
              \A t \in NestedNamed(ResourceBlock(r.n).blocks, <<>>) :
                 LET pats == {r.pats[i] : i \in DOMAIN r.pats}
                 IN  /\ ( /\ t.blockS.nesting \in {"single", "group"}
                          /\ ~t.blockS.block.nil
                          /\ ZeroSettable(t.blockS) )
                           => /\ WholeBlockPattern(t.at) \in pats
                              /\ \A l \in AttrsOf(t.blockS) :
                                    \A p \in pats : ~PerAttributePattern(p, Str(l.name))
                     /\ (\E l \in AttrsOf(t.blockS) : Settable(l))
                           => /\ WholeBlockPattern(t.at) \notin pats
                              /\ WholeBlockPattern(Str(t.blockS.name)) \notin pats


\* ---- C23 ----
\* C23: discovery without a reattach descriptor returns the executable of the
\* first of the four locations (data-dir registry layout, home registry
\* layout, flat plugin directory under the data dir, flat vendor directory
\* under home) that holds a file whose name starts with
\* terraform-provider-<name>, the last one enumerated there; a location
\* that is missing or holds no such file passes the search on to the next.
RegistryOf(fs, prefix) == IF fs[prefix].v14.exists THEN fs[prefix].v14 ELSE fs[prefix].v13
RegistryBase(fs, prefix) ==
    <<<<prefix>>, IF fs[prefix].v14.exists THEN <<"providers">> ELSE <<"plugins">>,
      <<"registry.terraform.io">>>>
Listing(d) == IF d.exists THEN d.entries ELSE <<>>
Executables(files) ==
    {k \in DOMAIN files : ~files[k].dir /\ HasPrefix(files[k].name, ExePrefix)}
RegistryCandidates(reg) ==
    {c \in [i : DOMAIN Listing(reg), j : 1..2, k : 1..2] :
        LET versions == Listing(reg.entries[c.i].sub)
        IN  /\ c.j \in DOMAIN versions
            /\ versions[c.j].dir
            /\ c.k \in Executables(Listing(versions[c.j].sub))}
Later(c, d) == c.i > d.i \/ (c.i = d.i /\ (c.j > d.j \/ (c.j = d.j /\ c.k >= d.k)))
LastInRegistry(fs, prefix) ==
    LET reg == RegistryOf(fs, prefix)
        cs == RegistryCandidates(reg)
    IN  IF cs = {} THEN NoPath
        ELSE LET c == CHOOSE x \in cs : \A y \in cs : Later(x, y)
                 version == reg.entries[c.i].sub.entries[c.j]
             IN  PathOf(RegistryBase(fs, prefix)
                          \o <<reg.entries[c.i].name, providerName, version.name, <<"os_arch">>>>,
                        version.sub.entries[c.k].name)
LastInFlat(d, base) ==
    LET es == Executables(Listing(d))
    IN  IF es = {} THEN NoPath
        ELSE PathOf(base, d.entries[CHOOSE k \in es : \A l \in es : l <= k].name)
Locations(fs) ==
    <<LastInRegistry(fs, "data"),
      LastInRegistry(fs, "home"),
      LastInFlat(fs.data.flat, <<<<"data">>, <<"plugins">>, <<"os_arch">>>>),
      LastInFlat(fs.home.flat, <<<<"home">>, <<".terraform.d">>, <<"plugins">>, <<"os_arch">>>>)>>
FirstLocation(fs) ==
    LET locs == Locations(fs)
        hits == {n \in DOMAIN locs : locs[n] # NoPath}
    IN  IF hits = {} THEN NoPath
        ELSE locs[CHOOSE n \in hits : \A m \in hits : n <= m]
Discovered == oPc \notin {"idle", "start"} /\ oReattach.nil
DiscoveryPriority == Discovered => oFile.path = FirstLocation(fsys)


\* ---- C24 ----
\* C24: when no search location holds a candidate executable and there is
\* no reattach descriptor, initProvider returns the discovery error and has
\* neither started a subprocess nor attempted a handshake.
NothingFound == oPc \notin {"idle", "start"} /\ oReattach.nil /\ FirstLocation(fsys) = NoPath
Launched == \E n \in DOMAIN oEvents : oEvents[n] \in {"spawn", "handshake"}
DiscoveryErrorBeforeLaunch ==
    NothingFound => oPc = "done" /\ oResult = "discovery error" /\ ~Launched


\* ---- C25 ----
\* C25: with a reattach descriptor the client has no command and is
\* unmanaged, so no subprocess is ever started; a failed or empty discovery
\* does not end initProvider; and the plugin set is the one of the
\* descriptor's protocol version.
Spawned == \E n \in DOMAIN oEvents : oEvents[n] = "spawn"
SchemaCacheNeverChanges ==
    [][/\ pSchema # NoSchema => (pSchema' = pSchema /\ rpcCount' = rpcCount)
       /\ (pSchema = NoSchema /\ pSchema' # NoSchema) =>
             \/ ~opened
             \/ \E c \in Callers : gPc[c] = "store" /\ pSchema' = gLocal[c]]_vars

\* ---- C30 ----
\* C30: concurrent Refresh calls on one session: no call is about to write
\* p.schema while another call is about to read it (nothing orders the two),
\* and every call that gets a schema gets the one it would have got alone,
\* the cached one.
AboutToWrite(c) == gPc[c] = "store"
AboutToRead(c) == gPc[c] \in {"return"} \/ (gPc[c] = "idle" /\ gCalls[c] < MaxCalls)
ConcurrentRefreshSafe ==
    /\ \A c, d \in Callers : c # d => ~(AboutToWrite(c) /\ AboutToRead(d))
    /\ \A c \in Callers :
          (gResult[c].kind = "schema" /\ gPc[c] = "idle") =>
              gResult[c].gen = pSchema.gen


\* ---- C26 ----
\* C26: a wrapper that carries diagnostics returns a non-nil error exactly
\* when a conversion or the upstream call failed or the response holds a
\* diagnostic of error severity; a response whose diagnostics are all
\* warnings comes back with a nil error.
WrapperCase == cOp = "done" /\ cMethod \in DiagMethods
CallFailed == cUp.toErr \/ cUp.rpcErr \/ cUp.fromErr
ErrorIffFailureOrErrorDiagnostic ==
    WrapperCase =>
        /\ (cOut.err # "nil") <=>
               (CallFailed \/ \E i \in DOMAIN cUp.diags : cUp.diags[i] = "error")
        /\ cOut.err # "panic"
        /\ (~CallFailed /\ \A i \in DOMAIN cUp.diags : cUp.diags[i] = "warning")
               => cOut = [ret |-> "ret", err |-> "nil"]
\* a response with two warnings was returned with a nil error
WarningsOnlyWitness ==
    /\ WrapperCase /\ ~CallFailed
    /\ cUp.diags = <<"warning", "warning">>
    /\ cOut = [ret |-> "ret", err |-> "nil"]

\* ---- C27 ----
\* C27: RefreshResources runs the refresh of every resource of the regular
\* list and of every slow group exactly once however many of them fail,
\* returns (with a nil error), and returns the resources whose instance
\* state is non-nil with a non-empty ID: the regular ones in input order,
\* then the groups in order.
Given == {r \in ResIds : \E i \in DOMAIN rrRegular : rrRegular[i] = r}
            \cup {r \in ResIds : \E g \in DOMAIN rrSlow : \E i \in DOMAIN rrSlow[g] : rrSlow[g][i] = r}
RefreshResourcesRefreshesAll ==
    /\ rrPhase # "crashed"
    /\ rrPhase \in {"collect", "done"} => \A r \in Given : rrCalls[r] = 1
    /\ rrPhase = "done" =>
          rrOut = SelectSeq(rrRegular \o Flatten(rrSlow),
                            LAMBDA r : rrState[r] \notin {"nil", "empty"})


\* ---- C28 ----
\* C28: for every value V that conforms to T, decoding NewDynamicValue(V)
\* against T succeeds and gives V; NewDynamicValue fills only the binary
\* payload; UnmarshallDynamicValue decodes the binary payload when it is not
\* empty, else the textual one when that is not empty, and gives the null of
\* T for nil and for two empty payloads.
CodecRoundTrip ==
    /\ cdOp # "panic"
    /\ cdOp \in {"encoded", "roundtrip"} =>
          ~cdDyn.isNil /\ cdDyn.mp # NoBytes /\ cdDyn.js = NoBytes
    /\ cdOp = "roundtrip" => ~cdOut.err /\ cdOut.val = cdVal
    /\ cdOp = "decoded" =>
          cdOut = IF cdDyn.isNil \/ (cdDyn.mp = NoBytes /\ cdDyn.js = NoBytes)
                  THEN Decoded(NullVal(cdTy))
                  ELSE IF cdDyn.mp # NoBytes THEN decode("msgpack", cdDyn.mp, cdTy)
                  ELSE decode("json", cdDyn.js, cdTy)


\* ---- C31 ----
\* C31: once a task error has cancelled the batch, no worker takes a
\* further item from the queue; only the tasks in progress at that moment
\* may still complete.
NoItemStartedAfterCancel ==
    [][(ctxDone /\ mainPc = "wait") => started' = started]_vars


\* ---- C32 ----
\* C32: a schema that cannot be fetched, a prior state that does not coerce
\* and a returned state that does not decode each end Refresh at once with
\* that error: in the first two cases without a ReadResource or
\* ImportResourceState call, in the last without any further call.
StateRpcs(tr) == SelectSeq(tr, LAMBDA e : e \in {"ReadResource", "ImportResourceState"})
SchemaFails == pSchema = NoSchema /\ schemaReply.err
StructuralStep ==
    /\ (rPc = "start" /\ SchemaFails) =>
          rPc' = "done" /\ rResult' = ErrResult("schema") /\ StateRpcs(rTrace') = <<>>
    /\ (rPc = "start" /\ ~SchemaFails /\ ~priorOk) =>
          rPc' = "done" /\ rResult' = ErrResult("prior state") /\ StateRpcs(rTrace') = <<>>
    /\ (rPc = "decode" /\ UnmarshallDynamicValue(rNewState).err) =>
          /\ rPc' = "done" /\ rTrace' = rTrace
          /\ rResult' = ErrResult(UnmarshallDynamicValue(rNewState).val)
StructuralFailuresNotRetried == [][StructuralStep]_vars
\* a read succeeded, its state did not decode, and Refresh ended with the
\* decoding error after that one read
StructuralFailureWitness ==
    /\ rPc = "done" /\ rSuccess /\ rResult = ErrResult("msgpack")
    /\ StateRpcs(rTrace) = <<"ReadResource">>


\* ---- C33 ----
\* C33: in every execution ReadResource is called at most retryCount times,
\* ImportResourceState at most once and only after retryCount failed reads,
\* no read follows a successful read or the import, and the execution ends
\* in exactly one of Success, Recovered and Unrecoverable.
Reads(tr) == Len(SelectSeq(tr, LAMBDA e : e = "ReadResource"))
Imports(tr) == Len(SelectSeq(tr, LAMBDA e : e = "ImportResourceState"))
Imported == ~ClientImportResourceState(importReply).err
               /\ Len(ClientImportResourceState(importReply).ImportedResources) > 0
EndsSuccess == rPc = "done" /\ rSuccess /\ Imports(rTrace) = 0
EndsRecovered == rPc = "done" /\ ~rSuccess /\ Imports(rTrace) = 1 /\ Imported
EndsUnrecoverable ==
    rPc = "done" /\ ~rSuccess /\ Imports(rTrace) = 1 /\ ~Imported /\ rResult.kind = "error"
Ended == rPc \notin {"start", "loop", "after", "decode"}
Attempted == ~SchemaFails /\ priorOk /\ rPc # "start"
RefreshStateMachine ==
    Attempted =>
       /\ Reads(rTrace) <= retryCount
       /\ Imports(rTrace) <= 1
       /\ Imports(rTrace) = 1 => (Reads(rTrace) = retryCount /\ ~rSuccess)
       /\ (rSuccess \/ Imports(rTrace) = 1) => rPc # "loop"
       /\ Ended => \/ EndsSuccess /\ ~EndsRecovered /\ ~EndsUnrecoverable
                   \/ ~EndsSuccess /\ EndsRecovered /\ ~EndsUnrecoverable
                   \/ ~EndsSuccess /\ ~EndsRecovered /\ EndsUnrecoverable


\* ---- C37 ----
\* C37: Refresh sleeps only between two consecutive read attempts: k read
\* attempts come with at most k-1 sleeps, and no sleep lies between the last
\* failed attempt and the import command.
Sleeps(tr) == Len(SelectSeq(tr, LAMBDA e : e = "sleep"))
SleepBeforeImport ==
    \E i \in 1..Len(rTrace) :
       /\ rTrace[i] = "sleep"
       /\ \E j \in (i+1)..Len(rTrace) :
             /\ rTrace[j] = "ImportResourceState"
             /\ \A k \in (i+1)..(j-1) : rTrace[k] # "ReadResource"
SleepsOnlyBetweenAttempts ==
    /\ Reads(rTrace) > 0 => Sleeps(rTrace) <= Reads(rTrace) - 1
    /\ Reads(rTrace) = 0 => Sleeps(rTrace) = 0
    /\ ~SleepBeforeImport


\* ---- C34 ----
\* C34: Open takes its steps in the order handshake, dispense, schema fetch,
\* coercion of the configuration (a null one as the empty object), configure
\* call; the configure call is made at most once, only after the schema was
\* fetched and the coercion succeeded, and its request carries the coerced
\* value; a failed coercion and a failed configure call make Open return an
\* error.
OpenSteps == <<"handshake", "dispense", "getschema", "coerce", "configure">>
Positions(e) == {n \in DOMAIN oEvents : oEvents[n] = e}
InOrder ==
    \A i \in DOMAIN OpenSteps :
       /\ Cardinality(Positions(OpenSteps[i])) <= 1
       /\ (i > 1 /\ Positions(OpenSteps[i]) # {}) =>
             \E m \in Positions(OpenSteps[i - 1]) :
                \A n \in Positions(OpenSteps[i]) : m < n
Configured == Positions("configure") # {}
Coerced == CoerceValue(oSchema, oConfig)
OpenErrors == {"discovery error", "client error", "dispense error", "schema error",
               "config error", "configure error"}
OpenStepsInOrder ==
    /\ InOrder
    /\ Positions("coerce") # {} => ~IsNull(oConfig)
    /\ Configured =>
          /\ oSchema # NilBlock
          /\ Coerced.kind = "ok"
          /\ DecodeDynamicValue(oRequest, ImpliedType(oSchema).ty) = Decoded(Coerced.val)
          /\ oResult \in {"ok", "configure error"}
    /\ (oPc = "done" /\ Positions("coerce") # {} /\ Coerced.kind # "ok") =>
          ~Configured /\ oResult \in OpenErrors
    /\ oResult = "configure error" => Configured


\* ---- C35 ----
\* C35: the path of an error raised inside element i of a list, set or map
\* nested block B is <path of the enclosing block>.B[i] whichever sibling
\* blocks were coerced before B, and the path of an attribute conversion
\* error is <path of the enclosing block>.<attribute>: the path leads, in the
\* input, to the place of the error, and is the path the same error has when
\* B is the only nested block.
RECURSIVE Leads(_, _)
Leads(v, path) ==
    IF path = <<>> THEN TRUE
    ELSE IF v.st # "known" THEN FALSE
    ELSE IF path[1].step = "attr"
    THEN /\ HasAttribute(v.ty, path[1].name)
         /\ Leads(GetAttr(v, path[1].name), Tail(path))
    ELSE /\ CanIterateElements(v)
         /\ \E k \in DOMAIN Elements(v) :
               /\ Elements(v)[k].key = path[1].key
               /\ Leads(Elements(v)[k].v, Tail(path))
BlockNames(b) == {b.blocks[i].name : i \in DOMAIN b.blocks}
WithoutSiblings(b, name) ==
    [b EXCEPT !.blocks = SelectSeq(b.blocks, LAMBDA bs : bs.name = name)]
InputWithoutSiblings(b, v, name) ==
    ObjectVal({x \in v.o : x.n = name \/ x.n \notin BlockNames(b)})
Alone(name) ==
    CoerceValue(WithoutSiblings(schema, name), InputWithoutSiblings(schema, inVal, name))
InsideElementOf(r, name) ==
    /\ r.kind = "err" /\ Len(r.path) >= 2
    /\ r.path[1] = GetAttrStep(name) /\ r.path[2].step = "index"
ElementErrorPath ==
    (/\ op = "CoerceValue" /\ res.kind = "err" /\ IsKnownObject(inVal)
     /\ Cardinality(BlockNames(schema)) = Len(schema.blocks))
    => /\ Leads(inVal, res.path)
       /\ \A i \in DOMAIN schema.blocks :
             (/\ \A j \in 1..(i - 1) : Alone(schema.blocks[j].name).kind = "ok"
              /\ InsideElementOf(Alone(schema.blocks[i].name), schema.blocks[i].name))
             => res.path = Alone(schema.blocks[i].name).path


\* ---- C36 ----
\* C36: CoerceValue of a null input is the null of the implied type and of an
\* unknown input the unknown of the implied type, without error whatever the
\* Block requires; a known input that is no object fails with "an object is
\* required" at the current path; a null or unknown value given for a list,
\* set or map nested block becomes the null or unknown list, set or map of
\* the child's implied type.
CollectionOf(nesting, ety) ==
    IF nesting = "list" THEN List(ety) ELSE IF nesting = "set" THEN Set(ety) ELSE Map(ety)
NotAnObject(v) == v.st = "known" /\ ~IsObjectType(v.ty)
AttributesOnly(b) == [b EXCEPT !.blocks = <<>>]
NullUnknownShortCircuit ==
    (op = "CoerceValue" /\ ImpliedType(schema).ok) =>
       /\ IsNull(inVal) =>
             res.kind = "ok" /\ res.val = NullVal(ImpliedType(schema).ty)
       /\ ~IsKnown(inVal) =>
             res.kind = "ok" /\ res.val = UnknownVal(ImpliedType(schema).ty)
       /\ NotAnObject(inVal) =>
             /\ res.kind = "err" /\ res.msg = "an object is required"
             /\ res.path = <<>>
       /\ (IsKnownObject(inVal) /\ res.kind = "ok") =>
             \A i \in DOMAIN schema.blocks :
                LET blockS == schema.blocks[i]
                    given == GetAttr(inVal, blockS.name)
                    cty == CollectionOf(blockS.nesting, ImpliedType(blockS.block).ty)
                IN  (/\ blockS.nesting \in {"list", "set", "map"}
                     /\ HasAttribute(inVal.ty, blockS.name)
                     /\ given.st # "known")
                    => GetAttr(res.val, blockS.name) =
                          IF IsNull(given) THEN NullVal(cty) ELSE UnknownVal(cty)
       /\ (/\ IsKnownObject(inVal) /\ Len(schema.blocks) = 1
           /\ schema.blocks[1].nesting \in {"single", "group"}
           /\ HasAttribute(inVal.ty, schema.blocks[1].name)
           /\ NotAnObject(GetAttr(inVal, schema.blocks[1].name))
           /\ CoerceValue(AttributesOnly(schema),
                          InputWithoutSiblings(schema, inVal, "")).kind = "ok")
          => /\ res.kind = "err" /\ res.msg = "an object is required"
             /\ res.path = <<GetAttrStep(schema.blocks[1].name)>>
\* a null input for a Block with a required attribute and a nested block
NullUnknownShortCircuitWitness ==
    /\ op = "CoerceValue" /\ IsNull(inVal) /\ res.kind = "ok"
    /\ \E i \in DOMAIN schema.attrs : schema.attrs[i].required
    /\ schema.blocks # <<>>


\* ---- C38 ----
\* C38: with poolSize > 0 at most poolSize task invocations are in progress
\* in every reachable state, every item is handed to the task at most once
\* and, when no task fails, exactly once by the time the call returns, for
\* any poolSize and number of items; the call on an empty list returns an
\* empty output and a nil error.
InProgress == {w \in DOMAIN wPc : wPc[w] = "task"}
NoTaskFails == \A k \in DOMAIN items : RunTask(task, items[k]).kind # "fail"
PoolBounds ==
    poolSize > 0 =>
       /\ Cardinality(InProgress) <= poolSize
       /\ \A i, j \in DOMAIN started : i # j => started[i] # started[j]
       /\ (mainPc = "returned" /\ NoTaskFails) =>
             {started[i] : i \in DOMAIN started} = DOMAIN items
       /\ (mainPc = "returned" /\ items = <<>>) => itemsout = <<>> /\ retErr = Nil
BoundedAndOnce ==
    /\ []PoolBounds
    /\ (poolSize > 0 /\ NoTaskFails) ~> (mainPc = "returned")
\* three items were handed once each to the task by two workers, both at
\* work at a time, and the call returned
BoundedAndOnceWitness ==
    /\ poolSize = 2 /\ Len(items) = 3 /\ NoTaskFails /\ mainPc = "returned"
    /\ Len(started) = 3


\* ---- C39 ----
\* C39: RefreshResources refreshes all regular resources, with at most 16
\* workers at a time, and has finished doing so before any slow group is
\* started; the slow groups run side by side, the resources of one group one
\* after the other in list order; and the call returns for every input, the
\* empty lists included.
AtWork == {w \in DOMAIN rrWork : rrWork[w] # NoWork}
SlowStarted == \E g \in DOMAIN rrSlow : \E p \in DOMAIN rrSlow[g] : rrCalls[rrSlow[g][p]] > 0
RrPhases ==
    /\ rrPhase = "regular" => Cardinality(AtWork) <= RegularPoolSize
    /\ SlowStarted =>
          /\ rrPhase # "regular"
          /\ \A p \in DOMAIN rrRegular : rrCalls[rrRegular[p]] = 1
    /\ rrPhase = "slow" =>
          \A v, w \in AtWork : v # w => rrWork[v].item # rrWork[w].item
    /\ \A g \in DOMAIN rrSlow : \A p, q \in DOMAIN rrSlow[g] :
          (p < q /\ rrCalls[rrSlow[g][q]] > 0) => rrCalls[rrSlow[g][p]] > 0
TwoPhasesThenReturn == []RrPhases /\ <>(rrPhase = "done")

=============================================================================
